---- MODULE Spec2Model ----
(***************************************************************************)
(* Verification model of the chatbot-telegram repository:                  *)
(*   - the incremental event-stream decoder createParser2                   *)
(*     (src/unnamed/part_000, inlined in browserPostEventStream);           *)
(*   - the response aggregation of ChatGPTAPI.sendMessage and of            *)
(*     browserPostEventStream, with the pTimeout deadline wrapper;          *)
(*   - the sessions of ChatGPTAPI and ChatGPTAPIBrowser;                    *)
(*   - the bot of src/chatbot.ts.                                           *)
(*                                                                         *)
(* The specifications share the module's variables:                         *)
(*   SpecDecoder  the decoder fed a text cut into chunks;                   *)
(*   SpecFeed     the decoder fed a whole text in one feed() call;          *)
(*   SpecLines    the decoder fed a stream piece by piece (whole lines,     *)
(*                a partial line, a piece opening with a byte-order-mark);  *)
(*   SpecReset    the same with reset();                                    *)
(*   Spec         one logical request;                                      *)
(*   SpecSession  the access token cache of a ChatGPTAPI under overlapping  *)
(*                sendMessage calls;                                        *)
(*   SpecBot      the bot's handlers under overlapping updates;             *)
(*   SpecBrowser  the browser session of a ChatGPTAPIBrowser under a        *)
(*                sendMessage call and the page's response handler.         *)
(*                                                                         *)
(* Text is a sequence of characters; a character is a one-token string.    *)
(* JavaScript indices are 0-based, so buffer[i] of the source is           *)
(* buffer[i + 1] here.                                                     *)
(***************************************************************************)
EXTENDS Integers, Sequences, FiniteSets, TLC

VARIABLES
    \* ---- decoder (createParser2 closure variables) ----
    isFirstChunk,          \* BOM stripping still armed
    buffer,                \* unconsumed tail of the text fed so far
    startingPosition,      \* where the next scan resumes in buffer
    startingFieldLength,   \* field length found so far in the partial line
    eventId,               \* current event id, or Undefined
    eventName,             \* current event name, or Undefined
    data,                  \* accumulated data (each data line + "\n")
    emitted,               \* the calls of onParse, in order
    input,                 \* the text the transport will deliver
    unfed,                 \* the part of input not yet fed
    fresh,                 \* SpecLines, SpecReset: a newly created decoder fed
                           \* the pieces fed since the last reset()
    \* ---- one logical request ----
    opts,                  \* the call's configuration
    result,                \* sendMessage: the result object; browserPostEventStream:
                           \* its locals response, conversationId, messageId
    responseP,             \* the promise built around the stream
    outcome,               \* what the caller of the request got
    timer,                 \* the deadline timer of pTimeout
    stream,                \* the transport's state
    transportError,        \* the error the transport failed with, "" if none
    abortCalls,            \* calls of AbortController.abort()
    progress,              \* the calls of onProgress, in order
    received,              \* the events handed to onMessage, in order
    firstCause,            \* the first thing that could end the request
    \* ---- the session of a ChatGPTAPI ----
    accessTokenCache,      \* this._accessTokenCache: the entries of the ExpiryMap
    authCalls,             \* requests sent to the authentication endpoint
    issued,                \* access tokens the endpoint has issued
    calls,                 \* each caller's sendMessage: where it stands, the
                           \* access token it got, how its last call ended
    \* ---- the bot (src/chatbot.ts) ----
    lastResponse,          \* the module's lastResponse
    handlers,              \* the handleMessage run of each update
    replies,               \* calls of ctx.reply
    updates,               \* updates received
    answers,               \* responses ChatGPT has produced
    botHistory,            \* what the chats have seen: a /reload not yet followed
                           \* by a forwarded message, each chat's last response,
                           \* the updates the filter dropped
    \* ---- a ChatGPTAPIBrowser ----
    _browser,              \* this._browser
    _page,                 \* this._page
    _accessToken,          \* this._accessToken
    browsers,              \* the browsers launched and not closed
    launched,              \* browsers launched so far
    inputBox,              \* the page shows the prompt textarea
    tasks,                 \* the sendMessage call and the response handler:
                           \* where each stands
    \* ---- a call of checkForChatGPTAtCapacity ----
    capacity               \* its locals, where it stands, what the page shows

decoderVars == <<isFirstChunk, buffer, startingPosition, startingFieldLength,
                 eventId, eventName, data, emitted, input, unfed, fresh>>
requestVars == <<opts, result, responseP, outcome, timer, stream, transportError,
                 abortCalls, progress, received, firstCause>>
sessionVars == <<accessTokenCache, authCalls, issued, calls>>
botVars == <<lastResponse, handlers, replies, updates, answers, botHistory>>
browserVars == <<_browser, _page, _accessToken, browsers, launched, inputBox, tasks>>
capacityVars == <<capacity>>
vars == <<decoderVars, requestVars, sessionVars, botVars, browserVars, capacityVars>>

-----------------------------------------------------------------------------
(* Characters *)

CR == "\\r"
LF == "\\n"
NUL == "\\0"
\* const BOM = [239, 187, 191]: the three char codes, named by their hex value
BOM == <<"EF", "BB", "BF">>
\* JavaScript's undefined, for a value that is otherwise a text
Undefined == <<"undefined">>

Digits == {"0", "1", "2", "3", "4", "5", "6", "7", "8", "9"}
DigitValue(c) == CASE c = "0" -> 0 [] c = "1" -> 1 [] c = "2" -> 2 [] c = "3" -> 3
                   [] c = "4" -> 4 [] c = "5" -> 5 [] c = "6" -> 6 [] c = "7" -> 7
                   [] c = "8" -> 8 [] c = "9" -> 9

\* String.prototype.slice(from, to) with 0-based, end-exclusive indices
Slice(s, from, to) ==
    LET f == IF from < 0 THEN 0 ELSE from
        t == IF to > Len(s) THEN Len(s) ELSE to
    IN  IF t <= f THEN <<>> ELSE SubSeq(s, f + 1, t)

\* s[i] of JavaScript: undefined past the end
CharAt(s, i) == IF i >= 0 /\ i < Len(s) THEN s[i + 1] ELSE "undefined"

\* parseInt(value, 10) on the characters of the model: leading blanks are
\* skipped, the longest digit prefix is the value, no digit gives NaN
NaN == -1
\* (a variant that takes the length of the value)
parseIntLength(value) == Len(value)

RECURSIVE DigitPrefix(_, _, _)
DigitPrefix(s, i, acc) ==
    IF i <= Len(s) /\ s[i] \in Digits
    THEN DigitPrefix(s, i + 1, 10 * (IF acc = NaN THEN 0 ELSE acc) + DigitValue(s[i]))
    ELSE acc
RECURSIVE SkipBlanks(_, _)
SkipBlanks(s, i) == IF i <= Len(s) /\ s[i] = " " THEN SkipBlanks(s, i + 1) ELSE i
parseInt(value) == DigitPrefix(value, SkipBlanks(value, 1), NaN)

\* value.includes("\0") (a variant that finds nothing)
IncludesNothing(s, c) == FALSE

\* value.includes("\0")
Includes(s, c) == \E i \in 1..Len(s) : s[i] = c

-----------------------------------------------------------------------------
(* createParser2 *)

\* function hasBom(buffer) (a variant that finds none)
hasBomNever(buf) == FALSE

\* function hasBom(buffer)
hasBom(buf) == \A index \in 0..(Len(BOM) - 1) : CharAt(buf, index) = BOM[index + 1]

\* The closure variables of one parser, with the onParse calls made so far
ParserState == [isFirstChunk |-> isFirstChunk, buffer |-> buffer,
                startingPosition |-> startingPosition,
                startingFieldLength |-> startingFieldLength,
                eventId |-> eventId, eventName |-> eventName, data |-> data,
                emitted |-> emitted]

\* function reset(), on a parser that has emitted nothing (createParser2 calls it)
NewParser == [isFirstChunk |-> TRUE, buffer |-> <<>>, startingPosition |-> 0,
              startingFieldLength |-> -1, eventId |-> Undefined,
              eventName |-> Undefined, data |-> <<>>, emitted |-> <<>>]

\* function reset(): clears the closure variables, keeps what was emitted
\* (a variant that keeps the buffered partial line)
resetKeepingBuffer(p) == [NewParser EXCEPT !.emitted = p.emitted, !.buffer = p.buffer]

reset(p) == [NewParser EXCEPT !.emitted = p.emitted]

\* No reset() yet after createParser2: the comparison decoder is the decoder
NoReset == [parser |-> NewParser, base |-> 0, resets |-> 0, dirty |-> FALSE,
            first |-> TRUE, bom |-> FALSE]

\* The data field of parseEventStreamLine: data += value ? `${value}\n` : "\n"
\* (a variant that drops the value)
appendDataDroppingValue(acc, value) == acc \o <<LF>>

\* data += value + "\n" (a variant that ends each value with a space)
appendDataSpaced(acc, value) == acc \o value \o <<" ">>

appendData(acc, value) == acc \o (IF value # <<>> THEN value \o <<LF>> ELSE <<LF>>)

\* The empty line of parseEventStreamLine (source lines 327-340): dispatch
\* (a variant that keeps the event id)
dispatchKeepingId(p) ==
    IF Len(p.data) > 0
    THEN [p EXCEPT !.emitted = Append(@, [type |-> "event",
                                           id |-> p.eventId,
                                           event |-> IF p.eventName = <<>>
                                                     THEN Undefined
                                                     ELSE p.eventName,
                                           data |-> Slice(p.data, 0, Len(p.data) - 1)]),
                   !.data = <<>>,
                   !.eventName = Undefined]
    ELSE [p EXCEPT !.eventName = Undefined]

\* The empty line of parseEventStreamLine (a variant that clears the event
\* name only when it dispatches)
dispatchKeepingName(p) ==
    IF Len(p.data) > 0
    THEN [p EXCEPT !.emitted = Append(@, [type |-> "event",
                                           id |-> p.eventId,
                                           event |-> IF p.eventName = <<>>
                                                     THEN Undefined
                                                     ELSE p.eventName,
                                           data |-> Slice(p.data, 0, Len(p.data) - 1)]),
                   !.data = <<>>,
                   !.eventId = Undefined,
                   !.eventName = Undefined]
    ELSE p

dispatch(p) ==
    IF Len(p.data) > 0
    THEN [p EXCEPT !.emitted = Append(@, [type |-> "event",
                                           id |-> p.eventId,
                                           event |-> IF p.eventName = <<>>
                                                     THEN Undefined
                                                     ELSE p.eventName,
                                           data |-> Slice(p.data, 0, Len(p.data) - 1)]),
                   !.data = <<>>,
                   !.eventId = Undefined,
                   !.eventName = Undefined]
    ELSE [p EXCEPT !.eventName = Undefined]

\* function parseEventStreamLine(lineBuffer, index, fieldLength, lineLength)
parseEventStreamLine(p, lineBuffer, index, fieldLength, lineLength) ==
    IF lineLength = 0
    THEN dispatch(p)
    ELSE
    LET noValue == fieldLength < 0
        field == Slice(lineBuffer, index, index + (IF noValue THEN lineLength ELSE fieldLength))
        step == IF noValue THEN lineLength
                ELSE IF CharAt(lineBuffer, index + fieldLength + 1) = " "
                     THEN fieldLength + 2
                     ELSE fieldLength + 1
        position == index + step
        valueLength == lineLength - step
        value == Slice(lineBuffer, position, position + valueLength)
    IN  IF field = <<"d", "a", "t", "a">>
        THEN [p EXCEPT !.data = appendData(@, value)]
        ELSE IF field = <<"e", "v", "e", "n", "t">>
        THEN [p EXCEPT !.eventName = value]
        ELSE IF field = <<"i", "d">> /\ ~Includes(value, NUL)
        THEN [p EXCEPT !.eventId = value]
        ELSE IF field = <<"r", "e", "t", "r", "y">>
        THEN LET retry == parseInt(value)
             IN  IF retry # NaN
                 THEN [p EXCEPT !.emitted = Append(@, [type |-> "reconnect-interval",
                                                        value |-> retry])]
                 ELSE p
        ELSE p

\* The for loop of feed (source lines 298-308): scans from index for the end
\* of the line that starts at position.  A terminator or ':' met before
\* position (the scan restarts at startingPosition = 0 after every complete
\* line) yields a negative length, which the loop treats as "not found yet";
\* a '\r' met there still sets discardTrailingNewline.
RECURSIVE ScanLine(_, _, _, _, _)
ScanLine(buf, position, index, fieldLength, discard) ==
    IF index >= Len(buf)
    THEN [lineLength |-> -1, fieldLength |-> fieldLength,
          discardTrailingNewline |-> discard]
    ELSE LET character == buf[index + 1]
         IN  IF character = ":" /\ fieldLength < 0
             THEN ScanLine(buf, position, index + 1, index - position, discard)
             ELSE IF character = CR
             THEN IF index - position >= 0
                  THEN [lineLength |-> index - position, fieldLength |-> fieldLength,
                        discardTrailingNewline |-> TRUE]
                  ELSE ScanLine(buf, position, index + 1, fieldLength, TRUE)
             ELSE IF character = LF
             THEN IF index - position >= 0
                  THEN [lineLength |-> index - position, fieldLength |-> fieldLength,
                        discardTrailingNewline |-> discard]
                  ELSE ScanLine(buf, position, index + 1, fieldLength, discard)
             ELSE ScanLine(buf, position, index + 1, fieldLength, discard)

\* The while loop of feed (source lines 288-319) and the buffer trimming
\* after it (320-324)
RECURSIVE FeedLoop(_, _, _)
FeedLoop(p, position, discardTrailingNewline) ==
    LET length == Len(p.buffer)
        Trim(q, pos) == IF pos = length THEN [q EXCEPT !.buffer = <<>>]
                        ELSE IF pos > 0 THEN [q EXCEPT !.buffer = Slice(q.buffer, pos, length)]
                        ELSE q
    IN  IF ~(position < length)
        THEN Trim(p, position)
        ELSE LET pos == IF discardTrailingNewline /\ CharAt(p.buffer, position) = LF
                        THEN position + 1 ELSE position
                 scan == ScanLine(p.buffer, pos, p.startingPosition,
                                  p.startingFieldLength, FALSE)
             IN  IF scan.lineLength < 0
                 THEN Trim([p EXCEPT !.startingPosition = length - pos,
                                     !.startingFieldLength = scan.fieldLength], pos)
                 ELSE FeedLoop(parseEventStreamLine(
                                   [p EXCEPT !.startingPosition = 0,
                                             !.startingFieldLength = -1],
                                   p.buffer, pos, scan.fieldLength, scan.lineLength),
                               pos + scan.lineLength + 1,
                               scan.discardTrailingNewline)

\* function feed(chunk)
feed(p, chunk) ==
    LET joined == IF p.buffer # <<>> THEN p.buffer \o chunk ELSE chunk
        stripped == IF p.isFirstChunk /\ hasBom(joined)
                    THEN Slice(joined, Len(BOM), Len(joined))
                    ELSE joined
    IN  FeedLoop([p EXCEPT !.buffer = stripped, !.isFirstChunk = FALSE], 0, FALSE)

-----------------------------------------------------------------------------
(* The texts and chunkings the decoder is driven with *)

MaxLines == 2

\* Contents of the lines of a well-formed text (without their terminator)
Lines == { <<"d", "a", "t", "a", ":", "a">>,
           <<"d", "a", "t", "a", ":">>,
           <<"d", "a", "t", "a">>,
           <<"i", "d", ":", "1">>,
           <<"e", "v", "e", "n", "t", ":", "e">>,
           <<>> }

Terminators == { <<LF>>, <<CR>>, <<CR, LF>> }

\* Every text of at most n terminated lines
RECURSIVE TextsOf(_)
TextsOf(n) ==
    IF n = 0 THEN { <<>> }
    ELSE { <<>> } \cup { l \o t \o rest : l \in Lines, t \in Terminators,
                                          rest \in TextsOf(n - 1) }

\* The same texts, with and without a leading byte-order-mark
Texts == { bom \o t : bom \in { <<>>, BOM }, t \in TextsOf(MaxLines) }

\* No sendMessage call of a ChatGPTAPI, no access token
Callers == {"c1", "c2"}
NoToken == <<>>
NoCall == [pc |-> "idle", accessToken |-> NoToken, status |-> "none", error |-> <<>>]
SessionIdle ==
    /\ accessTokenCache = {}
    /\ authCalls = 0
    /\ issued = 0
    /\ calls = [c \in Callers |-> NoCall]

\* No response yet: lastResponse is undefined, so lastResponse?.conversationId
\* and lastResponse?.messageId are undefined (NoId)
NoId == <<>>
NoResponse == [conversationId |-> NoId, messageId |-> NoId]

\* The chats the bot is in, one of each type that sends message updates
Chats == {"private", "group", "supergroup"}

MaxUpdates == 3   \* updates the bot receives

\* No handleMessage runs for the update
NoHandler == [pc |-> "none", chat |-> "none",
              conversationId |-> NoId, parentMessageId |-> NoId]

\* The bot before its first update
BotIdle ==
    /\ lastResponse = NoResponse
    /\ handlers = [u \in 1..MaxUpdates |-> NoHandler]
    /\ replies = 0
    /\ updates = 0
    /\ answers = 0
    /\ botHistory = [reloaded |-> FALSE,
                     lastOf |-> [chat \in Chats |-> NoResponse],
                     dropped |-> 0]

\* null
Null == <<>>

\* The callers of the session's operations: a sendMessage call and the
\* page's response handler
Tasks == {"sendMessage", "onResponse"}
NoTask == [pc |-> "idle", numTries |-> 0, resets |-> 0, requests |-> 0,
           browser |-> Null, outcome |-> "none", statusCode |-> "none"]

\* A ChatGPTAPIBrowser after its constructor
BrowserIdle ==
    /\ _browser = Null
    /\ _page = Null
    /\ _accessToken = Null
    /\ browsers = {}
    /\ launched = 0
    /\ inputBox = FALSE
    /\ tasks = [t \in Tasks |-> NoTask]

\* checkForChatGPTAtCapacity is not called
NoCheck == [pc |-> "idle", isAtCapacity |-> FALSE, numTries |-> 0, checks |-> 0,
            reloads |-> 0, observed |-> "none", page |-> FALSE, outcome |-> "none"]
CapacityIdle == capacity = NoCheck

\* The request is not part of the decoder's specification
RequestIdle ==
    /\ opts = [api |-> "none"]
    /\ result = [response |-> ""]
    /\ responseP = [state |-> "pending"]
    /\ outcome = [state |-> "pending"]
    /\ timer = "none"
    /\ stream = "none"
    /\ transportError = ""
    /\ abortCalls = 0
    /\ progress = <<>>
    /\ received = <<>>
    /\ firstCause = "none"

InitDecoder ==
    /\ input \in Texts
    /\ unfed = input
    /\ isFirstChunk = NewParser.isFirstChunk
    /\ buffer = NewParser.buffer
    /\ startingPosition = NewParser.startingPosition
    /\ startingFieldLength = NewParser.startingFieldLength
    /\ eventId = NewParser.eventId
    /\ eventName = NewParser.eventName
    /\ data = NewParser.data
    /\ emitted = NewParser.emitted
    /\ fresh = NoReset
    /\ RequestIdle
    /\ SessionIdle
    /\ BotIdle
    /\ BrowserIdle
    /\ CapacityIdle

\* The parser's closure variables become those of p
SetParser(p) ==
    /\ isFirstChunk' = p.isFirstChunk
    /\ buffer' = p.buffer
    /\ startingPosition' = p.startingPosition
    /\ startingFieldLength' = p.startingFieldLength
    /\ eventId' = p.eventId
    /\ eventName' = p.eventName
    /\ data' = p.data
    /\ emitted' = p.emitted

\* parser.feed(str) for the next chunk of the body: the first n characters
\* of what the transport has not delivered yet
FeedChunk(n) ==
    /\ n \in 1..Len(unfed)
    /\ SetParser(feed(ParserState, Slice(unfed, 0, n)))
    /\ unfed' = Slice(unfed, n, Len(unfed))
    /\ UNCHANGED <<input, fresh, requestVars, sessionVars, botVars, browserVars, capacityVars>>

NextDecoder == \E n \in 1..Len(unfed) : FeedChunk(n)

SpecDecoder == InitDecoder /\ [][NextDecoder]_vars

\* C1: cutting a well-formed text into chunks does not change what is emitted:
\* once the whole text was fed, the events emitted are those of feeding the
\* text to a new parser in one feed() call.
C1_ChunkingPreservesEvents ==
    unfed = <<>> => emitted = feed(NewParser, input).emitted

\* The text holds a data line with an empty value: "data" or "data:" or
\* "data: " right before a line terminator
HasEmptyDataLine(text) ==
    \E i \in 1..Len(text) :
        /\ i = 1 \/ text[i - 1] \in {CR, LF} \/ (i = Len(BOM) + 1 /\ hasBom(text))
        /\ Slice(text, i - 1, i + 3) = <<"d", "a", "t", "a">>
        /\ \/ CharAt(text, i + 3) \in {CR, LF}
           \/ CharAt(text, i + 3) = ":" /\ CharAt(text, i + 4) \in {CR, LF}
           \/ /\ CharAt(text, i + 3) = ":" /\ CharAt(text, i + 4) = " "
              /\ CharAt(text, i + 5) \in {CR, LF}

-----------------------------------------------------------------------------
(* One feed() call on a whole text *)

\* Every text of at most n lines drawn from lines, each ended by one of terms
RECURSIVE TextsOver(_, _, _)
TextsOver(lines, terms, n) ==
    IF n = 0 THEN { <<>> }
    ELSE { <<>> } \cup { l \o t \o rest : l \in lines, t \in terms,
                                          rest \in TextsOver(lines, terms, n - 1) }

\* Data lines, id lines and empty lines under every mix of terminators
FeedTexts ==
    TextsOver({ <<"d", "a", "t", "a", ":", "a">>, <<"i", "d", ":", "1">>, <<>> },
              Terminators, MaxLines + 1)

InitFeed ==
    /\ input \in FeedTexts
    /\ unfed = input
    /\ isFirstChunk = NewParser.isFirstChunk
    /\ buffer = NewParser.buffer
    /\ startingPosition = NewParser.startingPosition
    /\ startingFieldLength = NewParser.startingFieldLength
    /\ eventId = NewParser.eventId
    /\ eventName = NewParser.eventName
    /\ data = NewParser.data
    /\ emitted = NewParser.emitted
    /\ fresh = NoReset
    /\ RequestIdle
    /\ SessionIdle
    /\ BotIdle
    /\ BrowserIdle
    /\ CapacityIdle

\* parser.feed(str) with the whole body in one chunk
FeedAll ==
    /\ unfed # <<>>
    /\ FeedChunk(Len(unfed))

NextFeed == FeedAll

SpecFeed == InitFeed /\ [][NextFeed]_vars

\* The 1-based index of the first line terminator of text at or after i,
\* 0 if there is none
RECURSIVE TerminatorAt(_, _)
TerminatorAt(text, i) ==
    IF i > Len(text) THEN 0
    ELSE IF text[i] \in {CR, LF} THEN i
    ELSE TerminatorAt(text, i + 1)

\* The 0-based index of the first ':' of line, -1 if there is none
RECURSIVE ColonAt(_, _)
ColonAt(line, i) ==
    IF i >= Len(line) THEN -1
    ELSE IF line[i + 1] = ":" THEN i
    ELSE ColonAt(line, i + 1)

\* The parser after the lines of text from index i on, where the lines are
\* those obtained by splitting text at each "\r\n", lone "\n" and lone "\r";
\* an unterminated tail is no line
RECURSIVE AfterSplitLines(_, _, _)
AfterSplitLines(p, text, i) ==
    LET j == TerminatorAt(text, i)
    IN  IF j = 0 THEN p
        ELSE LET line == SubSeq(text, i, j - 1)
                 next == IF text[j] = CR /\ j < Len(text) /\ text[j + 1] = LF
                         THEN j + 2 ELSE j + 1
             IN  AfterSplitLines(
                     parseEventStreamLine(p, line, 0, ColonAt(line, 0), Len(line)),
                     text, next)

\* C11: within one feed() call the lines processed are those obtained by
\* splitting the text at each "\r\n", lone "\n" and lone "\r": the events
\* emitted by feeding a whole text are those of handling each such line in
\* turn, so every empty line after a data line dispatches one event.
C11_LinesAreSplitAtTerminators ==
    (unfed = <<>> /\ input # <<>>) =>
        emitted = AfterSplitLines(NewParser, input, 1).emitted

-----------------------------------------------------------------------------
(* The decoder fed a stream piece by piece *)

MaxEmitted == 2     \* onParse calls in one behaviour

DataLine == <<"d", "a", "t", "a", ":", "a">>
IdLines == { <<"i", "d", ":", "1">>, <<"i", "d", ":", "2">> }
NulIdLine == <<"i", "d", ":", "2", NUL>>
EventLine == <<"e", "v", "e", "n", "t", ":", "e">>
RetryLines == { <<"r", "e", "t", "r", "y", ":", "7">>,
                <<"r", "e", "t", "r", "y", ":", "x">> }

StreamLines == {DataLine, NulIdLine, EventLine, <<>>} \cup IdLines \cup RetryLines

\* A piece of the stream: a whole line with its terminator, a data line that
\* opens with a byte-order-mark, or the beginning of a line
PieceEnds == Terminators   \* every way a line ends
PartialLine == <<"d", "a">>
BomPiece == BOM \o DataLine \o <<LF>>
Pieces == { l \o t : l \in StreamLines, t \in PieceEnds }
              \cup {BomPiece, PartialLine}

InitLines ==
    /\ input = <<>>
    /\ unfed = <<>>
    /\ isFirstChunk = NewParser.isFirstChunk
    /\ buffer = NewParser.buffer
    /\ startingPosition = NewParser.startingPosition
    /\ startingFieldLength = NewParser.startingFieldLength
    /\ eventId = NewParser.eventId
    /\ eventName = NewParser.eventName
    /\ data = NewParser.data
    /\ emitted = NewParser.emitted
    /\ fresh = NoReset
    /\ RequestIdle
    /\ SessionIdle
    /\ BotIdle
    /\ BrowserIdle
    /\ CapacityIdle

\* parser.feed(str) for the piece c of the body; input is the piece fed last.
\* The stream holds one data line for an event, and a line begun is ended
\* before the next one is begun.
FeedPiece(c) ==
    /\ Len(emitted) < MaxEmitted
    /\ c = PartialLine => buffer = <<>>
    /\ c \in {BomPiece} \cup {DataLine \o t : t \in PieceEnds} => data = <<>>
    /\ SetParser(feed(ParserState, c))
    /\ input' = c
    /\ fresh' = [fresh EXCEPT !.parser = feed(@, c),
                              !.first = FALSE,
                              !.bom = IF fresh.first THEN hasBom(c) ELSE @]
    /\ UNCHANGED <<unfed, requestVars, sessionVars, botVars, browserVars, capacityVars>>

\* parser.reset(), once in a behaviour; fresh becomes a newly created decoder
\* and remembers where the log of onParse calls stood (base), whether the
\* decoder held a partial line, data, an event id and an event name (dirty);
\* first tells that nothing was fed since, bom that the first piece fed since
\* opened with a byte-order-mark
Reset ==
    /\ fresh.resets = 0
    /\ SetParser(reset(ParserState))
    /\ fresh' = [parser |-> NewParser, base |-> Len(emitted), resets |-> 1,
                 dirty |-> /\ buffer # <<>> /\ data # <<>> /\ ~isFirstChunk
                           /\ eventId # Undefined /\ eventName # Undefined,
                 first |-> TRUE, bom |-> FALSE]
    /\ UNCHANGED <<input, unfed, requestVars, sessionVars, botVars, browserVars, capacityVars>>

NextLines == \E c \in Pieces : FeedPiece(c)

SpecLines == InitLines /\ [][NextLines]_vars

\* The same stream with fewer kinds of lines, and reset()
ResetPieces == { l \o <<LF>> : l \in {DataLine, EventLine, <<"i", "d", ":", "1">>, <<>>} }
                   \cup {BomPiece, PartialLine}

NextReset ==
    \/ \E c \in ResetPieces : FeedPiece(c)
    \/ Reset

SpecReset == InitLines /\ [][NextReset]_vars

\* The value of a field line: what follows its first ':'
ValueOf(line) == Slice(line, ColonAt(line, 0) + 1, Len(line))

\* C12: a complete retry line whose value parses as an integer emits a
\* reconnect-interval event with that integer at once, whatever accumulated
\* data, event id and event name there are, and leaves them unchanged; a retry
\* line whose value does not parse emits nothing.
C12_RetryEmitsAtOnce ==
    [][\A l \in RetryLines, t \in PieceEnds :
          (buffer = <<>> /\ input' = l \o t /\ FeedPiece(l \o t)) =>
              /\ emitted' = IF ValueOf(l) = <<"7">>
                            THEN Append(emitted, [type |-> "reconnect-interval",
                                                  value |-> 7])
                            ELSE emitted
              /\ data' = data
              /\ eventId' = eventId
              /\ eventName' = eventName]_vars

C12_Witness ==
    /\ input = <<"r", "e", "t", "r", "y", ":", "7", LF>>
    /\ emitted = <<[type |-> "reconnect-interval", value |-> 7]>>
    /\ data = <<"a", LF>>
    /\ eventId = <<"1">>
    /\ eventName = <<"e">>

\* C13: an id line whose value holds a NUL character leaves the event id as
\* it was (set or not) and emits nothing; an id line without NUL sets the
\* event id to its value, whatever it was; the event dispatched next carries
\* the event id the decoder holds.
C13_NulIdIsIgnored ==
    [][\A t \in PieceEnds :
          /\ (buffer = <<>> /\ input' = NulIdLine \o t /\ FeedPiece(NulIdLine \o t)) =>
                 /\ eventId' = eventId
                 /\ emitted' = emitted
          /\ \A l \in IdLines :
                 (buffer = <<>> /\ input' = l \o t /\ FeedPiece(l \o t)) =>
                     eventId' = ValueOf(l)
          /\ (buffer = <<>> /\ data # <<>> /\ input' = t /\ FeedPiece(t)) =>
                 /\ Len(emitted') = Len(emitted) + 1
                 /\ emitted'[Len(emitted')].id = eventId]_vars

C13_Witness ==
    /\ input = NulIdLine \o <<LF>>
    /\ eventId = <<"1">>
    /\ data = <<"a", LF>>
    /\ emitted = <<>>

\* The events emitted since the last reset(), all of them if there was none
EmittedSinceReset == SubSeq(emitted, fresh.base + 1, Len(emitted))

\* C14: after reset() in any decoder state, the feed() calls that follow emit
\* the events a newly created decoder emits for the same calls (a leading
\* byte-order-mark of the first of them is stripped again).
C14_ResetIsNewDecoder ==
    EmittedSinceReset = fresh.parser.emitted

C14_Witness ==
    /\ fresh.resets = 1
    /\ fresh.dirty
    /\ fresh.bom
    /\ EmittedSinceReset = <<[type |-> "event", id |-> Undefined,
                              event |-> Undefined, data |-> <<"a">>]>>

\* C15: a byte-order-mark that opens the first chunk fed to a decoder is
\* removed, the chunk is parsed as the same chunk without it; a
\* byte-order-mark that opens a later chunk is not removed: it stays part of
\* the line it opens, whose field name is then not "data".
C15_BomStrippedFromFirstChunkOnly ==
    [][(input' = BomPiece /\ FeedPiece(BomPiece)) =>
          IF fresh.first
          THEN ParserState' = feed(ParserState, DataLine \o <<LF>>)
          ELSE /\ data' = data
               /\ emitted' = emitted
               /\ buffer = <<>> => ParserState' # feed(ParserState, DataLine \o <<LF>>)]_vars

C15_Witness ==
    /\ input = BomPiece
    /\ data = <<"a", LF>>
    /\ buffer = <<>>

\* C16: the empty line that dispatches an event emits it with the data,
\* event id and event name accumulated, and clears all three, so the event
\* dispatched next carries only what the lines after this dispatch set.
C16_DispatchClearsEvent ==
    [][\A t \in PieceEnds :
          (buffer = <<>> /\ data # <<>> /\ input' = t /\ FeedPiece(t)) =>
              /\ emitted' = Append(emitted,
                                   [type |-> "event", id |-> eventId,
                                    event |-> eventName,
                                    data |-> SubSeq(data, 1, Len(data) - 1)])
              /\ data' = <<>>
              /\ eventId' = Undefined
              /\ eventName' = Undefined]_vars

C16_Witness ==
    /\ emitted = <<[type |-> "event", id |-> <<"1">>, event |-> <<"e">>,
                    data |-> <<"a">>],
                   [type |-> "event", id |-> Undefined, event |-> Undefined,
                    data |-> <<"a">>]>>
    /\ data = <<>>
    /\ eventId = Undefined
    /\ eventName = Undefined

-----------------------------------------------------------------------------
(* One logical request: ChatGPTAPI.sendMessage ("node") or                  *)
(* browserPostEventStream ("browser").                                      *)
(*                                                                         *)
(* The request is followed from the moment its fetch was issued.  The      *)
(* decoded events reach onMessage as values: the sentinel, a text that      *)
(* JSON.parse rejects, or a JSON object.  timeoutMs, when configured, is a  *)
(* positive finite number; onProgress, when passed, returns normally.       *)
(* pTimeout of sendMessage (package p-timeout) is the code inlined as       *)
(* pTimeout2 in browserPostEventStream.                                     *)

MaxEvents == 3        \* events delivered to one request
MaxChunkEvents == 2   \* events decoded from one chunk

\* A value that is absent (undefined) where a string is expected
Absent == "undefined"

\* The data of the events the service sends: the sentinel, a text that is
\* not JSON, and JSON payloads
\*   { conversation_id?, message?: { id?, content: { parts: [parts0] } } }
Done == [kind |-> "[DONE]", conversation_id |-> Absent, message |-> FALSE,
         id |-> Absent, parts0 |-> Absent]
Malformed == [kind |-> "malformed", conversation_id |-> Absent, message |-> FALSE,
              id |-> Absent, parts0 |-> Absent]
Payloads == {
    [kind |-> "json", conversation_id |-> "c1", message |-> TRUE, id |-> "m1", parts0 |-> "a"],
    [kind |-> "json", conversation_id |-> Absent, message |-> TRUE, id |-> "m2", parts0 |-> "ab"],
    [kind |-> "json", conversation_id |-> Absent, message |-> TRUE, id |-> Absent, parts0 |-> "*a*"],
    [kind |-> "json", conversation_id |-> "c2", message |-> TRUE, id |-> "m3", parts0 |-> ""],
    [kind |-> "json", conversation_id |-> "c3", message |-> FALSE, id |-> Absent, parts0 |-> Absent] }
EventData == {Done, Malformed} \cup Payloads

\* JavaScript truthiness of an optional string
Truthy(v) == v # Absent /\ v # ""

\* function markdownToText(markdown): remark with strip-markdown removes the
\* emphasis markers of the one marked-up text of the model
markdownToText(markdown) == IF markdown = "*a*" THEN "a" ELSE markdown

\* err.toString() of the errors of the model
SyntaxErrorText == "SyntaxError: Unexpected token"
TimeoutErrorText == "TimeoutError: ChatGPT timed out waiting for response"
AbortErrorText == "AbortError: This operation was aborted"
StatusErrorText == "Error: ChatGPTAPI error 500"
TransportErrors == {"TypeError: terminated", "Error: TypeError: terminated",
                    "TypeError: Terminated", "TypeError: fetch failed"}

\* err.toString().toLowerCase()
toLowerCase(e) ==
    CASE e = "TypeError: terminated" -> "typeerror: terminated"
      [] e = "TypeError: Terminated" -> "typeerror: terminated"
      [] e = "Error: TypeError: terminated" -> "error: typeerror: terminated"
      [] e = "TypeError: fetch failed" -> "typeerror: fetch failed"
      [] e = AbortErrorText -> "aborterror: this operation was aborted"
      [] e = TimeoutErrorText -> "timeouterror: chatgpt timed out waiting for response"
      [] e = SyntaxErrorText -> "syntaxerror: unexpected token"
      [] e = StatusErrorText -> "error: chatgptapi error 500"

\* The test both catch handlers make on the lower-cased error
isTerminated(errMessageL) ==
    errMessageL = "error: typeerror: terminated" \/ errMessageL = "typeerror: terminated"

\* A promise, or the value a finished call handed to its caller.
\*   state: "pending", "fulfilled", "rejected"
\*   value: the (response, conversationId, messageId) at the time of resolve
\*   ref:   the value is the live result object, which later events mutate
\*   error: err.toString() of the rejection or of the error result
NoValue == [response |-> "", conversationId |-> Absent, messageId |-> Absent]
Pending == [state |-> "pending", ref |-> FALSE, value |-> NoValue, error |-> ""]
Fulfilled(v, byRef) == [state |-> "fulfilled", ref |-> byRef, value |-> v, error |-> ""]
Rejected(err) == [state |-> "rejected", ref |-> FALSE, value |-> NoValue, error |-> err]
\* browserPostEventStream's return { error: {message: err.toString(), ...},
\* conversationId, messageId }
ErrorResult(err, v) ==
    [state |-> "fulfilled", ref |-> FALSE,
     value |-> [response |-> "", conversationId |-> v.conversationId,
                messageId |-> v.messageId],
     error |-> err]

\* The request's state as one record
RequestState == [opts |-> opts, result |-> result, responseP |-> responseP,
                 outcome |-> outcome, timer |-> timer, stream |-> stream,
                 transportError |-> transportError, abortCalls |-> abortCalls,
                 progress |-> progress, received |-> received,
                 firstCause |-> firstCause]

SetRequest(r) ==
    /\ opts' = r.opts
    /\ result' = r.result
    /\ responseP' = r.responseP
    /\ outcome' = r.outcome
    /\ timer' = r.timer
    /\ stream' = r.stream
    /\ transportError' = r.transportError
    /\ abortCalls' = r.abortCalls
    /\ progress' = r.progress
    /\ received' = r.received
    /\ firstCause' = r.firstCause

\* The first thing that could end the request is remembered
Cause(r, c) == IF r.firstCause = "none" THEN [r EXCEPT !.firstCause = c] ELSE r

\* sendMessage: let abortController = null; if (timeoutMs && !abortSignal) ...
\* browserPostEventStream: if (timeoutMs) abortController = new AbortController()
hasAbortController(o) ==
    IF o.api = "node" THEN o.timeoutMs /\ ~o.abortSignal ELSE o.timeoutMs

\* pTimeout2's finally { clearTimeout(timer) } once the wrapped promise settled
clearTimeout(t) == IF t = "armed" THEN "cleared" ELSE t

\* browserPostEventStream's catch (err) block
browserCatch(r, err) ==
    LET errMessageL == toLowerCase(err)
    IN  IF r.result.response # "" /\ isTerminated(errMessageL)
        THEN [r EXCEPT !.outcome = Fulfilled(r.result, FALSE)]
        ELSE [r EXCEPT !.outcome = ErrorResult(err, r.result)]

\* A settle that lets a later resolve or reject replace an earlier one
settleLastWins(r, p) ==
    LET r1 == [r EXCEPT !.responseP = p, !.timer = IF @ = "armed" THEN "cleared" ELSE @]
    IN  IF r.opts.api = "node" \/ p.state = "fulfilled"
        THEN [r1 EXCEPT !.outcome = p]
        ELSE [r1 EXCEPT !.outcome = ErrorResult(p.error, r.result)]

\* What runs once responseP has settled as p: nothing when it was settled
\* before; otherwise the caller's continuation.
\*   sendMessage without timeoutMs returns responseP itself;
\*   with timeoutMs pTimeout's resolve(await promise) / reject(error) and
\*   its finally clearTimeout;
\*   browserPostEventStream awaits (pTimeout2 of) responseP and returns the
\*   value, or lands in its catch block.
settle(r, p) ==
    IF r.responseP.state # "pending" THEN r
    ELSE LET r1 == [r EXCEPT !.responseP = p, !.timer = clearTimeout(@)]
         IN  IF r.outcome.state # "pending" THEN r1
             ELSE IF r.opts.api = "node" THEN [r1 EXCEPT !.outcome = p]
             ELSE IF p.state = "fulfilled" THEN [r1 EXCEPT !.outcome = p]
             ELSE browserCatch(r1, p.error)

\* An assignment that appends the new partial text to the old one
assignResponseAppending(r, text) == [r EXCEPT !.result.response = @ \o text]
\* (a variant that keeps the first text)
assignResponseOnce(r, text) ==
    [r EXCEPT !.result.response = IF @ = "" THEN text ELSE @]

\* result.response = text (sendMessage), response = partialResponse
\* (browserPostEventStream)
assignResponse(r, text) == [r EXCEPT !.result.response = text]

\* ChatGPTAPI.sendMessage: onMessage of fetchSSE
onMessageNode(r, d) ==
    IF d.kind = "[DONE]"
    THEN settle(r, Fulfilled(r.result, TRUE))
    ELSE IF d.kind # "json"
    THEN settle(r, Rejected(SyntaxErrorText))
    ELSE LET r1 == IF Truthy(d.conversation_id)
                   THEN [r EXCEPT !.result.conversationId = d.conversation_id]
                   ELSE r
             r2 == IF d.message /\ Truthy(d.id)
                   THEN [r1 EXCEPT !.result.messageId = d.id]
                   ELSE r1
         IN  IF d.message /\ Truthy(d.parts0)
             THEN LET text == IF ~r.opts.markdown THEN markdownToText(d.parts0)
                              ELSE d.parts0
                      r3 == assignResponse(r2, text)
                  IN  IF r.opts.onProgress
                      THEN [r3 EXCEPT !.progress = Append(@, r3.result)]
                      ELSE r3
             ELSE r2

\* browserPostEventStream: function onMessage(data)
onMessageBrowser(r, d) ==
    IF d.kind = "[DONE]"
    THEN settle(r, Fulfilled(r.result, FALSE))
    ELSE IF d.kind # "json"
    THEN settle(r, Rejected(SyntaxErrorText))
    ELSE LET r1 == IF Truthy(d.conversation_id)
                   THEN [r EXCEPT !.result.conversationId = d.conversation_id]
                   ELSE r
             r2 == IF d.message /\ Truthy(d.id)
                   THEN [r1 EXCEPT !.result.messageId = d.id]
                   ELSE r1
         IN  IF d.message /\ Truthy(d.parts0)
             THEN assignResponse(r2, d.parts0)
             ELSE r2

\* onMessage(event.data) of the request's API, with the bookkeeping of what
\* was received and of the first thing that could end the request
onMessage(r, d) ==
    LET r0 == [r EXCEPT !.received = Append(@, d)]
        r1 == IF d.kind = "[DONE]" THEN Cause(r0, "done")
              ELSE IF d.kind # "json" THEN Cause(r0, "parse")
              ELSE r0
    IN  IF r.opts.api = "node" THEN onMessageNode(r1, d) ELSE onMessageBrowser(r1, d)

\* parser.feed(chunk): the events decoded from the chunk reach onMessage in order
RECURSIVE feedEvents(_, _)
feedEvents(r, ds) ==
    IF ds = <<>> THEN r ELSE feedEvents(onMessage(r, Head(ds)), Tail(ds))

\* A catch handler that resolves on the signature alone, without asking
\* whether a partial response was recorded
catchNodeIgnoringResponse(r, err) ==
    IF isTerminated(toLowerCase(err))
    THEN settle(r, Fulfilled(r.result, TRUE))
    ELSE settle(r, Rejected(err))

\* ChatGPTAPI.sendMessage: fetchSSE(...).catch((err) => ...)
catchNode(r, err) ==
    LET errMessageL == toLowerCase(err)
    IN  IF r.result.response # "" /\ isTerminated(errMessageL)
        THEN settle(r, Fulfilled(r.result, TRUE))
        ELSE settle(r, Rejected(err))

\* The transport failed with err while the body was being read (or, for
\* sendMessage, at any time: fetchSSE rejects).  In browserPostEventStream
\* the body is read inside the async executor of responseP, whose rejection
\* nothing observes: responseP is neither resolved nor rejected.
transportFailed(r, err) ==
    LET c == IF r.result.response # "" /\ isTerminated(toLowerCase(err))
             THEN "truncation" ELSE "transport"
        r1 == Cause([r EXCEPT !.stream = "failed", !.transportError = err], c)
    IN  IF r.opts.api = "node" THEN catchNode(r1, err) ELSE r1

\* A timer callback that never cancels the wrapped promise
cancelNothing(r) == r

\* promise.cancel() of pTimeout2's timer callback: abortController.abort()
cancel(r) ==
    IF hasAbortController(r.opts)
    THEN [r EXCEPT !.abortCalls = @ + 1,
                   !.stream = IF @ \in {"connecting", "open"} THEN "aborted" ELSE @]
    ELSE r

\* pTimeout2's timer callback (no fallback is passed): cancel, then reject
\* with the TimeoutError
timerCallback(r) ==
    LET r1 == cancel(Cause([r EXCEPT !.timer = "fired"], "timeout"))
    IN  IF r1.outcome.state # "pending" THEN r1
        ELSE IF r1.opts.api = "node"
        THEN [r1 EXCEPT !.outcome = Rejected(TimeoutErrorText)]
        ELSE browserCatch(r1, TimeoutErrorText)

-----------------------------------------------------------------------------
(* The request's specification *)

\* The options of the call.  ChatGPTAPIBrowser.sendMessage takes of its opts
\* conversationId, parentMessageId, messageId, action and timeoutMs, and
\* hands browserPostEventStream the url, the access token, the body and
\* timeoutMs; onProgress tells whether the caller passed a callback.
Options ==
    { [api |-> "node", timeoutMs |-> t, abortSignal |-> s, markdown |-> m,
       onProgress |-> p, conversationId |-> Absent, messageId |-> "m0"] :
         t \in BOOLEAN, s \in BOOLEAN, m \in BOOLEAN, p \in BOOLEAN }
    \cup
    { [api |-> "browser", timeoutMs |-> t, abortSignal |-> FALSE, markdown |-> TRUE,
       onProgress |-> p, conversationId |-> Absent, messageId |-> "m0"] :
         t \in BOOLEAN, p \in BOOLEAN }

\* The decoder is not part of the request's specification
DecoderIdle ==
    /\ input = <<>>
    /\ unfed = <<>>
    /\ isFirstChunk = NewParser.isFirstChunk
    /\ buffer = NewParser.buffer
    /\ startingPosition = NewParser.startingPosition
    /\ startingFieldLength = NewParser.startingFieldLength
    /\ eventId = NewParser.eventId
    /\ eventName = NewParser.eventName
    /\ data = NewParser.data
    /\ emitted = NewParser.emitted
    /\ fresh = NoReset

\* The state once the request was issued: sendMessage has built result and
\* responseP and, with timeoutMs, called pTimeout (the timer runs while the
\* fetch is still connecting); browserPostEventStream awaits its fetch and
\* arms no timer before the response arrived.
Init ==
    /\ DecoderIdle
    /\ SessionIdle
    /\ BotIdle
    /\ BrowserIdle
    /\ CapacityIdle
    /\ opts \in Options
    /\ result = [response |-> "", conversationId |-> opts.conversationId,
                 messageId |-> opts.messageId]
    /\ responseP = Pending
    /\ outcome = Pending
    /\ timer = IF opts.api = "node" /\ opts.timeoutMs THEN "armed" ELSE "none"
    /\ stream = "connecting"
    /\ transportError = ""
    /\ abortCalls = 0
    /\ progress = <<>>
    /\ received = <<>>
    /\ firstCause = "none"

\* fetch resolves with a response whose status is ok: the body is read from
\* now on; browserPostEventStream builds responseP and, with timeoutMs,
\* calls pTimeout2
ResponseOk ==
    /\ stream = "connecting"
    /\ stream' = "open"
    /\ timer' = IF opts.api = "browser" /\ opts.timeoutMs THEN "armed" ELSE timer
    /\ UNCHANGED <<decoderVars, sessionVars, botVars, browserVars, capacityVars, opts, result, responseP, outcome, transportError,
                   abortCalls, progress, received, firstCause>>

\* fetch resolves with a response that is not ok: fetchSSE throws a
\* ChatGPTError (sendMessage); browserPostEventStream returns an error result
ResponseNotOk ==
    /\ stream = "connecting"
    /\ LET r == Cause([RequestState EXCEPT !.stream = "failed",
                                           !.transportError = StatusErrorText],
                      "transport")
       IN  SetRequest(IF opts.api = "node" THEN catchNode(r, StatusErrorText)
                      ELSE [r EXCEPT !.outcome = ErrorResult(StatusErrorText, r.result)])
    /\ UNCHANGED <<decoderVars, sessionVars, botVars, browserVars, capacityVars>>

\* fetch itself rejects: sendMessage's catch handler, browserPostEventStream's
\* catch block
FetchFails(err) ==
    /\ stream = "connecting"
    /\ LET r == Cause([RequestState EXCEPT !.stream = "failed",
                                           !.transportError = err], "transport")
       IN  SetRequest(IF opts.api = "node" THEN catchNode(r, err)
                      ELSE browserCatch(r, err))
    /\ UNCHANGED <<decoderVars, sessionVars, botVars, browserVars, capacityVars>>

\* A chunk of the body arrives and is fed to the parser
Chunk(ds) ==
    /\ stream = "open"
    /\ Len(received) + Len(ds) <= MaxEvents
    /\ SetRequest(feedEvents(RequestState, ds))
    /\ UNCHANGED <<decoderVars, sessionVars, botVars, browserVars, capacityVars>>

\* The reader reports done: the loop over the body ends, fetchSSE resolves
\* (its value is not used), the async executor returns
StreamEnds ==
    /\ stream = "open"
    /\ stream' = "done"
    /\ UNCHANGED <<decoderVars, sessionVars, botVars, browserVars, capacityVars, opts, result, responseP, outcome, timer,
                   transportError, abortCalls, progress, received, firstCause>>

\* Reading the body fails
StreamFails(err) ==
    /\ stream = "open"
    /\ SetRequest(transportFailed(RequestState, err))
    /\ UNCHANGED <<decoderVars, sessionVars, botVars, browserVars, capacityVars>>

\* abort() was called on the request's signal: the pending fetch or read
\* rejects with an AbortError
AbortRejects ==
    /\ stream = "aborted"
    /\ SetRequest(transportFailed(RequestState, AbortErrorText))
    /\ UNCHANGED <<decoderVars, sessionVars, botVars, browserVars, capacityVars>>

\* The deadline elapses
TimerFires ==
    /\ timer = "armed"
    /\ SetRequest(timerCallback(RequestState))
    /\ UNCHANGED <<decoderVars, sessionVars, botVars, browserVars, capacityVars>>

Chunks == UNION { [1..n -> EventData] : n \in 1..MaxChunkEvents }

Next ==
    \/ ResponseOk
    \/ ResponseNotOk
    \/ \E err \in TransportErrors : FetchFails(err)
    \/ \E ds \in Chunks : Chunk(ds)
    \/ StreamEnds
    \/ \E err \in TransportErrors : StreamFails(err)
    \/ AbortRejects
    \/ TimerFires

Spec == Init /\ [][Next]_vars

-----------------------------------------------------------------------------
(* Properties of one request *)

\* The text of the most recent event before the first "[DONE]" whose
\* message.content.parts[0] is non-empty, "" if there is none
RECURSIVE LastPartsBeforeDone(_, _, _)
LastPartsBeforeDone(evs, i, last) ==
    IF i > Len(evs) \/ evs[i].kind = "[DONE]" THEN last
    ELSE LastPartsBeforeDone(evs, i + 1,
             IF evs[i].kind = "json" /\ evs[i].message /\ Truthy(evs[i].parts0)
             THEN evs[i].parts0 ELSE last)

\* The position of the first event of that kind in evs, 0 if there is none
FirstOfKind(evs, k) ==
    IF \E i \in 1..Len(evs) : evs[i].kind = k
    THEN CHOOSE i \in 1..Len(evs) : evs[i].kind = k /\ \A j \in 1..(i - 1) : evs[j].kind # k
    ELSE 0

\* C2: in ChatGPTAPI.sendMessage, once the request has a terminal outcome,
\* later events neither invoke onProgress nor change the result that was
\* handed to the caller.
C2_EventsAfterTerminalIgnored ==
    [][(opts.api = "node" /\ outcome.state # "pending")
         => (progress' = progress /\ (outcome.ref => result' = result))]_vars

\* C3: when the body ended normally and the request is still pending,
\* something is left that ends it: the request does not stay pending forever,
\* also without a deadline.
C3_StreamEndSettles ==
    (stream = "done" /\ outcome.state = "pending") => timer = "armed"

\* C4: sendMessage with timeoutMs and no caller-supplied abort signal: when
\* the deadline elapses the request is rejected with the timeout error and
\* abort() was called exactly once; before that abort() is not called.
C4_TimeoutRejectsAndAbortsOnce ==
    (opts.api = "node" /\ opts.timeoutMs /\ ~opts.abortSignal) =>
        /\ abortCalls <= 1
        /\ timer = "fired" => (outcome = Rejected(TimeoutErrorText) /\ abortCalls = 1)
        /\ timer # "fired" => abortCalls = 0

C4_Witness ==
    /\ opts.api = "node" /\ opts.timeoutMs /\ ~opts.abortSignal
    /\ timer = "fired"
    /\ received # <<>>
    /\ FirstOfKind(received, "[DONE]") = 0
    /\ outcome = Rejected(TimeoutErrorText)
    /\ abortCalls = 1
    /\ stream = "failed"

\* C5 as stated: in sendMessage a transport failure always decides the
\* request: resolved with the last partial response when the error is a
\* "terminated" one and a non-empty partial response was recorded, rejected
\* with the error otherwise.
C5_TransportFailureDecides ==
    (opts.api = "node" /\ stream = "failed" /\ transportError \in TransportErrors) =>
        IF result.response # "" /\ isTerminated(toLowerCase(transportError))
        THEN outcome = Fulfilled(result, TRUE)
        ELSE outcome = Rejected(transportError)

\* C5 amended: a transport failure that reaches a request that is still
\* pending (it is the first thing that could end it) decides it that way.
C5_TransportFailureDecidesPending ==
    (opts.api = "node" /\ firstCause \in {"truncation", "transport"}) =>
        /\ stream = "failed"
        /\ IF result.response # ""
              /\ toLowerCase(transportError) \in {"typeerror: terminated",
                                                  "error: typeerror: terminated"}
           THEN outcome = Fulfilled(result, TRUE)
           ELSE outcome = Rejected(transportError)

C5_Witness ==
    /\ opts.api = "node"
    /\ firstCause = "truncation"
    /\ transportError = "Error: TypeError: terminated"
    /\ result.response = "ab"
    /\ outcome = Fulfilled(result, TRUE)

\* C6: in browserPostEventStream a "terminated" read failure that reaches a
\* pending request after a non-empty partial response returns that partial
\* response, without an error field.
C6_BrowserTerminatedReturnsPartial ==
    (opts.api = "browser" /\ firstCause = "truncation") =>
        outcome = Fulfilled(result, FALSE)

C8_ParseFailureIsFinal ==
    firstCause = "parse" =>
        /\ outcome.error = SyntaxErrorText
        /\ outcome.state = IF opts.api = "node" THEN "rejected" ELSE "fulfilled"
        /\ responseP = Rejected(SyntaxErrorText)

C8_Witness ==
    /\ firstCause = "parse"
    /\ FirstOfKind(received, "malformed") > 0
    /\ FirstOfKind(received, "[DONE]") > FirstOfKind(received, "malformed")
    /\ outcome.error = SyntaxErrorText

\* C9: the first of "[DONE]", benign truncation, parse failure, timeout and
\* transport error to happen is the request's outcome, and stays it.
C9_FirstCauseIsTheOutcome ==
    CASE firstCause = "none" -> outcome.state = "pending"
      [] firstCause = "done" -> outcome.state = "fulfilled" /\ outcome.error = ""
      [] firstCause = "truncation" -> outcome.state = "fulfilled" /\ outcome.error = ""
      [] firstCause = "parse" -> outcome.state # "pending" /\ outcome.error = SyntaxErrorText
      [] firstCause = "timeout" -> outcome.state # "pending" /\ outcome.error = TimeoutErrorText
      [] firstCause = "transport" -> outcome.state # "pending" /\ outcome.error = transportError

\* The events received whose message.content.parts[0] is non-empty
WithParts(evs) ==
    SelectSeq(evs, LAMBDA d : d.kind = "json" /\ d.message /\ Truthy(d.parts0))

\* C19 as stated: in sendMessage with onProgress, onProgress was called once
\* for each received event with a non-empty parts[0], in their order, with
\* response equal to the event's text, and for no other event.
C19_ProgressPerPartialAnswer ==
    (opts.api = "node" /\ opts.onProgress) =>
        /\ Len(progress) = Len(WithParts(received))
        /\ \A i \in 1..Len(progress) :
               progress[i].response = WithParts(received)[i].parts0

\* C19 amended: the same, with response equal to the event's text passed
\* through markdownToText when sendMessage runs with markdown off.
C19_ProgressPerPartialAnswerConverted ==
    (opts.api = "node" /\ opts.onProgress) =>
        /\ Len(progress) = Len(WithParts(received))
        /\ \A i \in 1..Len(progress) :
               progress[i].response =
                   IF opts.markdown THEN WithParts(received)[i].parts0
                   ELSE markdownToText(WithParts(received)[i].parts0)

C19_Witness ==
    /\ opts.api = "node" /\ opts.onProgress /\ ~opts.markdown
    /\ Len(received) = 3
    /\ received[1].parts0 = "*a*"
    /\ received[2].parts0 = ""
    /\ received[3].parts0 = "ab"
    /\ Len(progress) = 2
    /\ progress[1].response = "a"
    /\ progress[2].response = "ab"

\* C20: an onProgress callback passed to ChatGPTAPIBrowser.sendMessage is
\* called with the partial response for each non-empty partial answer
\* received.
C20_BrowserProgressIsCalled ==
    (opts.api = "browser" /\ opts.onProgress) =>
        Len(progress) = Len(WithParts(received))

-----------------------------------------------------------------------------
(* The session of a ChatGPTAPI: the access token cache under overlapping   *)
(* sendMessage calls.  Of a call only refreshSession and the status of the  *)
(* conversation request are followed; what a response with status 200       *)
(* streams is the subject of Spec.  The cache is an ExpiryMap (package      *)
(* expiry-map): a Map whose entries are deleted when their age reaches      *)
(* accessTokenTTL.                                                          *)

MaxAuthCalls == 3   \* requests sent to the authentication endpoint

KEY_ACCESS_TOKEN == "accessToken"

\* An access token: the one passed to the constructor is <<0>>, the n-th one
\* the endpoint issues is <<n>>
InitialToken == <<0>>

\* ExpiryMap.get(key): undefined (NoToken) without an entry
get(cache, key) ==
    IF \E e \in cache : e.key = key
    THEN (CHOOSE e \in cache : e.key = key).value
    ELSE NoToken

\* ExpiryMap.set(key, value) (a variant that adds an entry next to the old one)
setAdding(cache, key, value) == cache \cup {[key |-> key, value |-> value]}

\* ExpiryMap.set(key, value)
set(cache, key, value) ==
    {e \in cache : e.key # key} \cup {[key |-> key, value |-> value]}

\* ExpiryMap.delete(key)
delete(cache, key) == {e \in cache : e.key # key}

\* The statuses of the conversation request's response
Statuses == {"200", "401", "403", "500"}

\* What the authentication endpoint answers: a session with an access token,
\* a response that is not ok, a session without access token, a session with
\* an access token and an error, a session whose error is
\* "RefreshAccessTokenError" with and without an access token
AuthResponses ==
    {"ok", "not ok", "no accessToken", "error", "RefreshAccessTokenError",
     "RefreshAccessTokenError, no accessToken"}

\* res.accessToken is there
hasAccessToken(answer) == answer \in {"ok", "error", "RefreshAccessTokenError"}

\* res.error
appError(answer) ==
    CASE answer \in {"RefreshAccessTokenError",
                     "RefreshAccessTokenError, no accessToken"} ->
             "RefreshAccessTokenError"
      [] answer = "error" -> "SomeError"
      [] OTHER -> ""

ExpiredText == "session token may have expired"

\* The message of the ChatGPTError refreshSession throws, in its parts: the
\* catch block's prefix, then err.toString() of the error thrown in the try
\* block
refreshSessionError(answer) ==
    <<"ChatGPT failed to refresh auth token. ", "Error: ",
      IF answer = "not ok" THEN "500 Internal Server Error"
      ELSE IF ~ hasAccessToken(answer) THEN "Unauthorized"
      ELSE IF appError(answer) = "RefreshAccessTokenError" THEN ExpiredText
      ELSE appError(answer)>>

\* String.prototype.includes, of a message given in its parts
includes(message, text) == \E i \in 1..Len(message) : message[i] = text

\* new ChatGPTAPI(opts), with or without the accessToken option
InitSession ==
    /\ accessTokenCache \in { {}, set({}, KEY_ACCESS_TOKEN, InitialToken) }
    /\ authCalls = 0
    /\ issued = 0
    /\ calls = [c \in Callers |-> NoCall]
    /\ DecoderIdle
    /\ RequestIdle
    /\ BotIdle
    /\ BrowserIdle
    /\ CapacityIdle

\* sendMessage up to its await of refreshSession, and refreshSession up to
\* its first await: with a cached token the call goes on to the conversation
\* request, without one it asks the authentication endpoint
SendMessage(c) ==
    /\ calls[c].pc = "idle"
    /\ LET cachedAccessToken == get(accessTokenCache, KEY_ACCESS_TOKEN)
       IN  IF cachedAccessToken # NoToken
           THEN /\ calls' = [calls EXCEPT ![c] = [pc |-> "fetch",
                                                  accessToken |-> cachedAccessToken,
                                                  status |-> "none",
                                                  error |-> <<>>]]
                /\ UNCHANGED authCalls
           ELSE /\ authCalls < MaxAuthCalls
                /\ calls' = [calls EXCEPT ![c] = [pc |-> "auth",
                                                  accessToken |-> NoToken,
                                                  status |-> "none",
                                                  error |-> <<>>]]
                /\ authCalls' = authCalls + 1
    /\ UNCHANGED <<accessTokenCache, issued, decoderVars, requestVars, botVars, browserVars, capacityVars>>

\* The authentication endpoint answers the refreshSession of c
AuthResponds(c, answer) ==
    /\ calls[c].pc = "auth"
    /\ IF answer = "ok"
       THEN LET accessToken == <<issued + 1>>
            IN  /\ issued' = issued + 1
                /\ accessTokenCache' = set(accessTokenCache, KEY_ACCESS_TOKEN, accessToken)
                /\ calls' = [calls EXCEPT ![c] = [pc |-> "fetch",
                                                  accessToken |-> accessToken,
                                                  status |-> "none",
                                                  error |-> <<>>]]
       ELSE /\ issued' = IF hasAccessToken(answer) THEN issued + 1 ELSE issued
            /\ calls' = [calls EXCEPT ![c] = [pc |-> "idle",
                                              accessToken |-> NoToken,
                                              status |-> "refresh failed",
                                              error |-> refreshSessionError(answer)]]
            /\ UNCHANGED accessTokenCache
    /\ UNCHANGED <<authCalls, decoderVars, requestVars, botVars, browserVars, capacityVars>>

\* The conversation request of c is answered with the status: fetchSSE throws
\* on a response that is not ok and the catch handler of sendMessage rejects
ConversationResponds(c, status) ==
    /\ calls[c].pc = "fetch"
    /\ calls' = [calls EXCEPT ![c].pc = "idle", ![c].status = status]
    /\ UNCHANGED <<accessTokenCache, authCalls, issued, decoderVars, requestVars, botVars, browserVars, capacityVars>>

\* The cached token's age reaches accessTokenTTL: the ExpiryMap deletes it
TokenExpires ==
    /\ accessTokenCache # {}
    /\ accessTokenCache' = {}
    /\ UNCHANGED <<authCalls, issued, calls, decoderVars, requestVars, botVars, browserVars, capacityVars>>

\* async closeSession()
closeSession ==
    /\ accessTokenCache' = delete(accessTokenCache, KEY_ACCESS_TOKEN)
    /\ accessTokenCache' # accessTokenCache
    /\ UNCHANGED <<authCalls, issued, calls, decoderVars, requestVars, botVars, browserVars, capacityVars>>

NextSession ==
    \/ \E c \in Callers : SendMessage(c)
    \/ \E c \in Callers, answer \in AuthResponses : AuthResponds(c, answer)
    \/ \E c \in Callers, status \in Statuses : ConversationResponds(c, status)
    \/ TokenExpires
    \/ closeSession

SpecSession == InitSession /\ [][NextSession]_vars

\* C17: when the conversation request of a sendMessage call fails with
\* status 401 or 403, the access token the call used is no longer cached, so
\* that the next call asks the authentication endpoint.
C17_AuthFailureInvalidatesToken ==
    [][\A c \in Callers, status \in {"401", "403"} :
          ConversationResponds(c, status) =>
              get(accessTokenCache', KEY_ACCESS_TOKEN) # calls[c].accessToken]_vars

\* C18: refreshSession returns the cached token without a request to the
\* authentication endpoint exactly when a token is cached (not expired, not
\* deleted), and sends a request otherwise; when the endpoint answers with
\* a token, that token is returned and is the only cached token.
C18_RefreshUsesCacheOrStoresOne ==
    [][\A c \in Callers :
          /\ SendMessage(c) =>
                 IF get(accessTokenCache, KEY_ACCESS_TOKEN) # NoToken
                 THEN /\ authCalls' = authCalls
                      /\ calls'[c].accessToken = get(accessTokenCache, KEY_ACCESS_TOKEN)
                 ELSE /\ authCalls' = authCalls + 1
                      /\ calls'[c].accessToken = NoToken
          /\ AuthResponds(c, "ok") =>
                 /\ accessTokenCache' = {[key |-> KEY_ACCESS_TOKEN,
                                          value |-> <<issued'>>]}
                 /\ calls'[c].accessToken = <<issued'>>]_vars

C18_Witness ==
    /\ issued = 2
    /\ accessTokenCache = {[key |-> KEY_ACCESS_TOKEN, value |-> <<2>>]}
    /\ calls["c1"].accessToken = <<1>>
    /\ calls["c2"].accessToken = <<2>>

-----------------------------------------------------------------------------
(* The bot of src/chatbot.ts.  An update is handled up to the first await   *)
(* of its handler in one step; a handleMessage run then waits for its       *)
(* acknowledgement to be sent and for the answer of sendMessage, and the    *)
(* runs of different updates overlap.  A text is a sequence of tokens:      *)
(* words, and " " for white space; a message without text has NoText.       *)

Mention == "@bot"          \* `@${botName}`
Space == " "
NoText == <<>>

MessageTexts ==
    { <<"hi">>, <<Mention, Space, "hi">>, <<Mention>>, <<"/reload">>, <<"/help">>,
      NoText }

\* String.prototype.startsWith
startsWith(text, word) == text # <<>> /\ text[1] = word

\* String.prototype.replace(word, ""): the first occurrence is removed
replace(text, word) ==
    IF \E i \in 1..Len(text) : text[i] = word
    THEN LET i == CHOOSE i \in 1..Len(text) :
                      /\ text[i] = word
                      /\ \A j \in 1..(i - 1) : text[j] # word
         IN  SubSeq(text, 1, i - 1) \o SubSeq(text, i + 1, Len(text))
    ELSE text

\* String.prototype.trim
RECURSIVE trim(_)
trim(text) ==
    IF text = <<>> THEN text
    ELSE IF Head(text) = Space THEN trim(Tail(text))
    ELSE IF text[Len(text)] = Space THEN trim(SubSeq(text, 1, Len(text) - 1))
    ELSE text

\* The predicate of b.filter (a variant that lets every update pass)
filteredAll(chat, text) == chat \in Chats

\* The predicate of b.filter: in a group or supergroup only the messages
\* whose text starts with the mention pass
filtered(chat, text) ==
    ~ (chat \in {"group", "supergroup"} /\ ~ startsWith(text, Mention))

\* filtered.command(name): the text opens with the command
command(text, name) == startsWith(text, name)

\* A response of ChatGPT: the n-th one it produces continues the
\* conversation it was asked to continue, or opens conversation n
Response(n, conversationId) ==
    [conversationId |-> IF conversationId = NoId THEN <<n>> ELSE conversationId,
     messageId |-> <<n>>]

\* lastResponse = await chatGPTAPI.sendMessage(...) (a variant that assigns
\* undefined when the await throws)
assignedOrCleared(last, settled) ==
    IF settled.ok THEN settled.value ELSE NoResponse

\* lastResponse = await chatGPTAPI.sendMessage(...): when the await throws
\* the assignment does not take place
assigned(last, settled) ==
    IF settled.ok THEN settled.value ELSE last

InitBot ==
    /\ BotIdle
    /\ DecoderIdle
    /\ RequestIdle
    /\ SessionIdle
    /\ BrowserIdle
    /\ CapacityIdle

\* An update with a message of the chat arrives: the filter, the command
\* handlers, and handleMessage up to its await of ctx.reply("...")
Update(chat, text) ==
    /\ updates < MaxUpdates
    /\ updates' = updates + 1
    /\ UNCHANGED answers
    /\ IF ~ filtered(chat, text)
       THEN /\ botHistory' = [botHistory EXCEPT !.dropped = @ + 1]
            /\ UNCHANGED <<lastResponse, handlers, replies>>
       ELSE IF command(text, "/reload")
       THEN /\ lastResponse' = NoResponse
            /\ replies' = replies + 1
            /\ botHistory' = [botHistory EXCEPT !.reloaded = TRUE,
                                                !.lastOf[chat] = NoResponse]
            /\ UNCHANGED handlers
       ELSE IF command(text, "/help")
       THEN /\ replies' = replies + 1
            /\ UNCHANGED <<lastResponse, handlers, botHistory>>
       ELSE IF text = NoText \/ trim(replace(text, Mention)) = <<>>
       THEN UNCHANGED <<lastResponse, handlers, replies, botHistory>>
       ELSE /\ replies' = replies + 1
            /\ handlers' = [handlers EXCEPT ![updates + 1] =
                               [NoHandler EXCEPT !.pc = "acked", !.chat = chat]]
            /\ UNCHANGED <<lastResponse, botHistory>>
    /\ UNCHANGED <<decoderVars, requestVars, sessionVars, browserVars, capacityVars>>

\* The acknowledgement of update u is sent: handleMessage reads lastResponse
\* and calls chatGPTAPI.sendMessage
Forward(u) ==
    /\ handlers[u].pc = "acked"
    /\ handlers' = [handlers EXCEPT ![u].pc = "sent",
                                    ![u].conversationId = lastResponse.conversationId,
                                    ![u].parentMessageId = lastResponse.messageId]
    /\ botHistory' = [botHistory EXCEPT !.reloaded = FALSE]
    /\ UNCHANGED <<lastResponse, replies, updates, answers>>
    /\ UNCHANGED <<decoderVars, requestVars, sessionVars, browserVars, capacityVars>>

\* The acknowledgement of update u cannot be sent: handleMessage throws
ReplyFails(u) ==
    /\ handlers[u].pc = "acked"
    /\ handlers' = [handlers EXCEPT ![u] = NoHandler]
    /\ UNCHANGED <<lastResponse, replies, updates, answers, botHistory>>
    /\ UNCHANGED <<decoderVars, requestVars, sessionVars, browserVars, capacityVars>>

\* sendMessage of update u resolves: lastResponse is assigned
Respond(u) ==
    /\ handlers[u].pc = "sent"
    /\ answers' = answers + 1
    /\ lastResponse' = assigned(lastResponse,
                                [ok |-> TRUE,
                                 value |-> Response(answers + 1,
                                                    handlers[u].conversationId)])
    /\ botHistory' = [botHistory EXCEPT !.lastOf[handlers[u].chat] = lastResponse']
    /\ handlers' = [handlers EXCEPT ![u] = NoHandler]
    /\ UNCHANGED <<replies, updates>>
    /\ UNCHANGED <<decoderVars, requestVars, sessionVars, browserVars, capacityVars>>

\* sendMessage of update u throws: the catch block replies
Fail(u) ==
    /\ handlers[u].pc = "sent"
    /\ lastResponse' = assigned(lastResponse, [ok |-> FALSE, value |-> NoResponse])
    /\ replies' = replies + 1
    /\ handlers' = [handlers EXCEPT ![u] = NoHandler]
    /\ UNCHANGED <<updates, answers, botHistory>>
    /\ UNCHANGED <<decoderVars, requestVars, sessionVars, browserVars, capacityVars>>

NextBot ==
    \/ \E chat \in Chats, text \in MessageTexts : Update(chat, text)
    \/ \E u \in 1..MaxUpdates : Forward(u)
    \/ \E u \in 1..MaxUpdates : ReplyFails(u)
    \/ \E u \in 1..MaxUpdates : Respond(u)
    \/ \E u \in 1..MaxUpdates : Fail(u)

SpecBot == InitBot /\ [][NextBot]_vars

\* C21: after the /reload handler has run, the next message forwarded to
\* ChatGPT is sent with conversationId and parentMessageId undefined, in
\* every interleaving with the handleMessage runs of other updates.
C21_ReloadStartsNewConversation ==
    [][\A u \in 1..MaxUpdates :
          (botHistory.reloaded /\ Forward(u)) =>
              /\ handlers'[u].conversationId = NoId
              /\ handlers'[u].parentMessageId = NoId]_vars

\* C22: in a group or supergroup a message whose text does not start with
\* the mention triggers nothing (no reply, no handleMessage run and so no
\* request to ChatGPT, lastResponse unchanged), the commands included; in
\* a private chat a message is handled whatever its prefix: /reload resets
\* lastResponse and replies, /help replies, any other text with something
\* left after the mention is removed is acknowledged and forwarded.
C22_GroupMessagesNeedMention ==
    [][\A chat \in Chats, text \in MessageTexts :
          Update(chat, text) =>
              IF chat \in {"group", "supergroup"} /\ ~ startsWith(text, Mention)
              THEN UNCHANGED <<replies, handlers, lastResponse>>
              ELSE IF chat = "private"
              THEN CASE text = <<"/reload">> ->
                            lastResponse' = NoResponse /\ replies' = replies + 1
                     [] text = <<"/help">> ->
                            replies' = replies + 1 /\ UNCHANGED lastResponse
                     [] text \in { <<"hi">>, <<Mention, Space, "hi">> } ->
                            /\ replies' = replies + 1
                            /\ handlers'[updates'].pc = "acked"
                            /\ handlers'[updates'].chat = chat
                     [] OTHER -> TRUE
              ELSE TRUE]_vars

\* A group message without the mention was dropped, and a message was
\* acknowledged
C22_Witness ==
    /\ botHistory.dropped > 0
    /\ replies > 0
    /\ \E u \in 1..MaxUpdates : handlers[u].pc = "sent" /\ handlers[u].chat = "private"

\* C29: the conversationId and parentMessageId sent for a message of a chat
\* are those of the last response produced for that chat (undefined after
\* the chat's /reload or before its first response).
C29_ConversationPerChat ==
    [][\A u \in 1..MaxUpdates :
          Forward(u) =>
              /\ handlers'[u].conversationId =
                     botHistory.lastOf[handlers[u].chat].conversationId
              /\ handlers'[u].parentMessageId =
                     botHistory.lastOf[handlers[u].chat].messageId]_vars

-----------------------------------------------------------------------------
(* The session of a ChatGPTAPIBrowser: one sendMessage call at a time and   *)
(* the page's response handler, which both may run resetSession.  A step    *)
(* runs a method from one await to the next.  browser.close() takes effect  *)
(* when it is called.  A browser is <<n>>, the n-th one launched; its page  *)
(* bears the same name.                                                     *)

MaxLaunches == 3   \* browsers launched by getBrowser

AccessToken == <<1>>

\* Where a task stands inside resetSession
ResetPcs == {"closing", "launching", "opening", "authenticating", "failing"}

\* initSession has succeeded (src/chatbot.ts exits otherwise)
InitBrowser ==
    /\ _browser = <<1>>
    /\ _page = <<1>>
    /\ _accessToken = AccessToken
    /\ browsers = { <<1>> }
    /\ launched = 1
    /\ inputBox = TRUE
    /\ tasks = [t \in Tasks |-> NoTask]
    /\ DecoderIdle
    /\ RequestIdle
    /\ SessionIdle
    /\ BotIdle
    /\ CapacityIdle

\* async getIsAuthenticated(): an access token, and the page answers the
\* query for the textarea with one
getIsAuthenticated ==
    /\ _accessToken # Null
    /\ _page # Null
    /\ _page \in browsers
    /\ inputBox

\* The task's record when its resetSession has returned: sendMessage goes
\* on to its second getIsAuthenticated, the response handler ends
afterReset(t, task) ==
    [task EXCEPT !.pc = IF t = "sendMessage" THEN "recheck" ELSE "idle",
                 !.browser = Null]

\* resetSession up to its first await: closeSession calls this._browser.close(),
\* a TypeError when this._browser is null, which resetSession catches
resetSession(t, task) ==
    IF _browser = Null
    THEN /\ tasks' = [tasks EXCEPT ![t] = afterReset(t, task)]
         /\ UNCHANGED browsers
    ELSE /\ tasks' = [tasks EXCEPT ![t] = [task EXCEPT !.pc = "closing"]]
         /\ browsers' = browsers \ {_browser}

\* page.evaluate(browserPostEventStream, ...) is called
evaluate(task) ==
    [task EXCEPT !.pc = "evaluating", !.requests = @ + 1]

\* The call ends
ended(task, how, statusCode) ==
    [task EXCEPT !.pc = "idle", !.outcome = how, !.statusCode = statusCode]

\* sendMessage after resetSession (a variant that issues the request
\* whatever getIsAuthenticated answers)
recheckIssuing(task, authenticated) == evaluate(task)

\* sendMessage after resetSession: the second getIsAuthenticated
recheck(task, authenticated) ==
    IF authenticated THEN evaluate(task)
    ELSE ended(task, "Not signed in", "401")

\* The catch block around page.evaluate (a variant that always retries)
catchEvaluateRetrying(task) ==
    [task EXCEPT !.numTries = @ + 1, !.pc = "delay"]

\* The catch block around page.evaluate: ++numTries >= 2 throws
catchEvaluate(task) ==
    IF task.numTries + 1 >= 2
    THEN [ended(task, "ChatGPTError", "none") EXCEPT !.numTries = @ + 1]
    ELSE [task EXCEPT !.numTries = @ + 1, !.pc = "delay"]

\* chatGPTAPI.sendMessage(message, opts) up to its first await
Call ==
    /\ tasks["sendMessage"].pc = "idle"
    /\ tasks' = [tasks EXCEPT !["sendMessage"] = [NoTask EXCEPT !.pc = "attempt"]]
    /\ UNCHANGED <<_browser, _page, _accessToken, browsers, launched, inputBox>>
    /\ UNCHANGED <<decoderVars, requestVars, sessionVars, botVars, capacityVars>>

\* The top of the do loop: getIsAuthenticated answers, the request is issued
\* or resetSession is called
Attempt ==
    /\ tasks["sendMessage"].pc = "attempt"
    /\ IF getIsAuthenticated
       THEN /\ tasks' = [tasks EXCEPT !["sendMessage"] = evaluate(@)]
            /\ UNCHANGED browsers
       ELSE resetSession("sendMessage",
                         [tasks["sendMessage"] EXCEPT !.resets = @ + 1])
    /\ UNCHANGED <<_browser, _page, _accessToken, launched, inputBox>>
    /\ UNCHANGED <<decoderVars, requestVars, sessionVars, botVars, capacityVars>>

\* closeSession after its await, and initSession up to its await of getBrowser
\* or, with a browser stored meanwhile, of closeSession
Closed(t) ==
    /\ tasks[t].pc = "closing"
    /\ _page' = Null
    /\ _browser' = Null
    /\ _accessToken' = Null
    /\ tasks' = [tasks EXCEPT ![t].pc = "launching"]
    /\ UNCHANGED <<browsers, launched, inputBox>>
    /\ UNCHANGED <<decoderVars, requestVars, sessionVars, botVars, capacityVars>>

\* initSession finds a browser stored: closeSession up to its await
CloseStored(t) ==
    /\ tasks[t].pc = "launching"
    /\ _browser # Null
    /\ browsers' = browsers \ {_browser}
    /\ tasks' = [tasks EXCEPT ![t].pc = "closing"]
    /\ UNCHANGED <<_browser, _page, _accessToken, launched, inputBox>>
    /\ UNCHANGED <<decoderVars, requestVars, sessionVars, botVars, capacityVars>>

\* getBrowser resolves: this._browser is assigned and the pages are asked for
Launched(t) ==
    /\ tasks[t].pc = "launching"
    /\ launched < MaxLaunches
    /\ launched' = launched + 1
    /\ browsers' = browsers \cup { <<launched'>> }
    /\ _browser' = <<launched'>>
    /\ tasks' = [tasks EXCEPT ![t].pc = "opening", ![t].browser = <<launched'>>]
    /\ UNCHANGED <<_page, _accessToken, inputBox>>
    /\ UNCHANGED <<decoderVars, requestVars, sessionVars, botVars, capacityVars>>

\* The browser's page is there: this._page is assigned, the handlers are
\* attached and getOpenAIAuth is called
Opened(t) ==
    /\ tasks[t].pc = "opening"
    /\ tasks[t].browser \in browsers
    /\ _page' = tasks[t].browser
    /\ inputBox' = FALSE
    /\ tasks' = [tasks EXCEPT ![t].pc = "authenticating"]
    /\ UNCHANGED <<_browser, _accessToken, browsers, launched>>
    /\ UNCHANGED <<decoderVars, requestVars, sessionVars, botVars, capacityVars>>

\* getOpenAIAuth resolves, the chat page loads and initSession's
\* getIsAuthenticated answers: initSession returns or throws "Failed to
\* authenticate session", and resetSession returns
Authenticated(t) ==
    /\ tasks[t].pc = "authenticating"
    /\ tasks[t].browser \in browsers
    /\ tasks' = [tasks EXCEPT ![t] = afterReset(t, @)]
    /\ UNCHANGED <<_browser, _page, _accessToken, browsers, launched, inputBox>>
    /\ UNCHANGED <<decoderVars, requestVars, sessionVars, botVars, capacityVars>>

\* getBrowser, the page or getOpenAIAuth throws: the catch block of
\* initSession closes the browser stored in this._browser
InitFails(t) ==
    /\ tasks[t].pc \in {"launching", "opening", "authenticating"}
    /\ tasks[t].pc = "launching" => _browser = Null
    /\ IF _browser # Null
       THEN /\ browsers' = browsers \ {_browser}
            /\ tasks' = [tasks EXCEPT ![t].pc = "failing"]
            /\ UNCHANGED <<_browser, _page>>
       ELSE /\ _browser' = Null
            /\ _page' = Null
            /\ tasks' = [tasks EXCEPT ![t] = afterReset(t, @)]
            /\ UNCHANGED browsers
    /\ UNCHANGED <<_accessToken, launched, inputBox>>
    /\ UNCHANGED <<decoderVars, requestVars, sessionVars, botVars, capacityVars>>

\* The catch block of initSession after its await: initSession throws and
\* resetSession returns
Failed(t) ==
    /\ tasks[t].pc = "failing"
    /\ _browser' = Null
    /\ _page' = Null
    /\ tasks' = [tasks EXCEPT ![t] = afterReset(t, @)]
    /\ UNCHANGED <<_accessToken, browsers, launched, inputBox>>
    /\ UNCHANGED <<decoderVars, requestVars, sessionVars, botVars, capacityVars>>

\* resetSession has returned: the second getIsAuthenticated of the attempt
Recheck ==
    /\ tasks["sendMessage"].pc = "recheck"
    /\ tasks' = [tasks EXCEPT !["sendMessage"] = recheck(@, getIsAuthenticated)]
    /\ UNCHANGED <<_browser, _page, _accessToken, browsers, launched, inputBox>>
    /\ UNCHANGED <<decoderVars, requestVars, sessionVars, botVars, capacityVars>>

\* page.evaluate resolves with the result of browserPostEventStream: a
\* response, or an error result with or without status 403
EvaluateReturns(res) ==
    /\ tasks["sendMessage"].pc = "evaluating"
    /\ tasks' = [tasks EXCEPT !["sendMessage"] =
                    IF res = "response" THEN ended(@, "returned", "none")
                    ELSE ended(@, "ChatGPTError", res)]
    /\ UNCHANGED <<_browser, _page, _accessToken, browsers, launched, inputBox>>
    /\ UNCHANGED <<decoderVars, requestVars, sessionVars, botVars, capacityVars>>

\* page.evaluate throws
EvaluateThrows ==
    /\ tasks["sendMessage"].pc = "evaluating"
    /\ tasks' = [tasks EXCEPT !["sendMessage"] = catchEvaluate(@)]
    /\ UNCHANGED <<_browser, _page, _accessToken, browsers, launched, inputBox>>
    /\ UNCHANGED <<decoderVars, requestVars, sessionVars, botVars, capacityVars>>

\* delay2(5e3) is over: the loop starts its next attempt
DelayEnds ==
    /\ tasks["sendMessage"].pc = "delay"
    /\ tasks' = [tasks EXCEPT !["sendMessage"].pc = "attempt",
                              !["sendMessage"].resets = 0]
    /\ UNCHANGED <<_browser, _page, _accessToken, browsers, launched, inputBox>>
    /\ UNCHANGED <<decoderVars, requestVars, sessionVars, botVars, capacityVars>>

\* this._onResponse for a response of api/auth/session of the open page:
\* status 401 calls resetSession, a session with an access token stores it
SessionResponds(status) ==
    /\ _page # Null
    /\ _page \in browsers
    /\ IF status = "401"
       THEN /\ tasks["onResponse"].pc = "idle"
            /\ resetSession("onResponse", tasks["onResponse"])
            /\ UNCHANGED _accessToken
       ELSE /\ _accessToken' = AccessToken
            /\ _accessToken' # _accessToken
            /\ UNCHANGED <<browsers, tasks>>
    /\ UNCHANGED <<_browser, _page, launched, inputBox>>
    /\ UNCHANGED <<decoderVars, requestVars, sessionVars, botVars, capacityVars>>

\* The open page comes to show the prompt textarea, or ceases to
PageChanges ==
    /\ _page # Null
    /\ _page \in browsers
    /\ inputBox' = ~ inputBox
    /\ UNCHANGED <<_browser, _page, _accessToken, browsers, launched, tasks>>
    /\ UNCHANGED <<decoderVars, requestVars, sessionVars, botVars, capacityVars>>

NextBrowser ==
    \/ Call
    \/ Attempt
    \/ \E t \in Tasks : Closed(t)
    \/ \E t \in Tasks : CloseStored(t)
    \/ \E t \in Tasks : Launched(t)
    \/ \E t \in Tasks : Opened(t)
    \/ \E t \in Tasks : Authenticated(t)
    \/ \E t \in Tasks : InitFails(t)
    \/ \E t \in Tasks : Failed(t)
    \/ Recheck
    \/ \E res \in {"response", "403", "500"} : EvaluateReturns(res)
    \/ EvaluateThrows
    \/ DelayEnds
    \/ \E status \in {"200", "401"} : SessionResponds(status)
    \/ PageChanges

SpecBrowser == InitBrowser /\ [][NextBrowser]_vars

\* C23: when the session is not authenticated at the start of an attempt of
\* sendMessage, resetSession is performed exactly once for that attempt and
\* no request is issued meanwhile; afterwards the call throws 'Not signed in'
\* with statusCode 401 without a request if the session is still not
\* authenticated, and issues the request if it is.
C23_ResetOnceThenThrowOrIssue ==
    [][LET task == tasks["sendMessage"]
           next == tasks'["sendMessage"]
       IN  /\ (task.pc = "attempt" /\ ~ getIsAuthenticated /\ Attempt) =>
                  /\ next.resets = 1
                  /\ next.pc \in ResetPcs \cup {"recheck"}
                  /\ next.requests = task.requests
           /\ (task.pc \in ResetPcs /\ next # task) =>
                  /\ next.resets = 1
                  /\ next.pc \in ResetPcs \cup {"recheck"}
                  /\ next.requests = task.requests
           /\ (task.pc = "recheck" /\ Recheck) =>
                  IF getIsAuthenticated
                  THEN /\ next.pc = "evaluating"
                       /\ next.requests = task.requests + 1
                       /\ next.resets = 1
                  ELSE /\ next.pc = "idle"
                       /\ next.outcome = "Not signed in"
                       /\ next.statusCode = "401"
                       /\ next.requests = task.requests]_vars

\* A call whose session stayed unauthenticated after its one resetSession
C23_Witness ==
    /\ tasks["sendMessage"].outcome = "Not signed in"
    /\ tasks["sendMessage"].resets = 1
    /\ tasks["sendMessage"].requests = 0
    /\ launched > 1

\* What C26 says of each step of a call, but for its first throw
RetrySteps ==
    LET task == tasks["sendMessage"]
        next == tasks'["sendMessage"]
    IN  /\ next.requests <= 2
        /\ (task.pc = "evaluating" /\ EvaluateThrows) =>
               IF task.numTries = 0
               THEN next.pc = "delay" /\ next.outcome = "none"
               ELSE next.pc = "idle" /\ next.outcome = "ChatGPTError"
        /\ (task.pc = "delay" /\ next # task) => next.pc = "attempt"
        /\ \A res \in {"response", "403", "500"} :
               (task.pc = "evaluating" /\ EvaluateReturns(res)) =>
                   /\ next.pc = "idle"
                   /\ next.requests = task.requests

\* The call ends in this step
CallEnds == tasks["sendMessage"].pc # "idle" /\ tasks'["sendMessage"].pc = "idle"

\* C26: sendMessage runs page.evaluate at most twice per call: when the
\* first run throws it waits and runs it once more, when the second run
\* throws it throws ChatGPTError, and it never runs the request again after
\* a run returned a result.
C26_AtMostTwoRuns ==
    [][/\ RetrySteps
       /\ (CallEnds /\ tasks'["sendMessage"].numTries >= 1) =>
              tasks'["sendMessage"].requests = 2]_vars

\* C26 as the code has it: after the first throw and the wait, the request
\* is run once more unless the session is then not authenticated and
\* resetSession does not restore it, in which case the call throws 'Not
\* signed in' after one run.
C26_AtMostTwoRunsWhenSignedIn ==
    [][/\ RetrySteps
       /\ (CallEnds /\ tasks'["sendMessage"].numTries >= 1) =>
              \/ tasks'["sendMessage"].requests = 2
              \/ /\ tasks'["sendMessage"].outcome = "Not signed in"
                 /\ tasks'["sendMessage"].requests = 1]_vars

\* A call whose first run threw and whose second run returned a response
C26_Witness ==
    /\ tasks["sendMessage"].pc = "idle"
    /\ tasks["sendMessage"].outcome = "returned"
    /\ tasks["sendMessage"].numTries = 1
    /\ tasks["sendMessage"].requests = 2

\* C30: at every moment at most one browser launched by the instance is
\* open, in every interleaving of initSession, resetSession and
\* closeSession.
C30_AtMostOneBrowserOpen == Cardinality(browsers) <= 1

-----------------------------------------------------------------------------
(* Further properties of the request (specification Spec) *)

\* C24: whenever the deadline of ChatGPTAPI.sendMessage elapses before the
\* request completed, the underlying fetch is cancelled (abort() is called
\* and the transport is no longer connecting or being read), also when the
\* caller passed its own abortSignal together with timeoutMs.
C24_TimeoutCancelsFetch ==
    (opts.api = "node" /\ timer = "fired") =>
        /\ abortCalls = 1
        /\ stream \notin {"connecting", "open"}

\* C25: with timeoutMs, browserPostEventStream always returns: as long as
\* it has not returned, the deadline timer is armed, whatever the transport
\* does, also while the fetch has not yielded the response headers.
C25_DeadlineBoundsWholeRequest ==
    (opts.api = "browser" /\ opts.timeoutMs /\ outcome.state = "pending") =>
        timer = "armed"

-----------------------------------------------------------------------------
(* Further properties of the session of a ChatGPTAPI (specification         *)
(* SpecSession)                                                             *)

\* C27: when the authentication endpoint's response carries the error
\* "RefreshAccessTokenError", refreshSession fails with an error whose
\* message contains 'session token may have expired', whether or not the
\* response carries an access token.
C27_ExpiredTokenIsReported ==
    [][\A c \in Callers :
          \A answer \in {"RefreshAccessTokenError",
                         "RefreshAccessTokenError, no accessToken"} :
              AuthResponds(c, answer) =>
                  /\ calls'[c].status = "refresh failed"
                  /\ includes(calls'[c].error, ExpiredText)]_vars

\* C28: at most one request to the authentication endpoint is in flight at
\* any time.
C28_OneRefreshInFlight ==
    Cardinality({c \in Callers : calls[c].pc = "auth"}) <= 1

-----------------------------------------------------------------------------
(* Further properties of the session of a ChatGPTAPIBrowser (specification  *)
(* SpecBrowser)                                                             *)

\* C31: resetSession attempts initSession every time it is called, also
\* when no browser is open: the step that calls resetSession leaves the
\* caller inside resetSession, on its way to getBrowser.
C31_ResetAlwaysInitialises ==
    [][/\ (tasks["sendMessage"].pc = "attempt" /\ ~ getIsAuthenticated /\ Attempt) =>
              tasks'["sendMessage"].pc \in ResetPcs
       /\ (tasks["onResponse"].pc = "idle" /\ SessionResponds("401")) =>
              tasks'["onResponse"].pc \in ResetPcs]_vars

-----------------------------------------------------------------------------
(* Further properties of the bot (specification SpecBot) *)

\* What C33 says of every step: a failure leaves lastResponse unchanged, a
\* forwarded message carries the ids of lastResponse, and lastResponse
\* changes only when a sendMessage succeeds or /reload runs
FailureFrame ==
    /\ \A u \in 1..MaxUpdates :
           /\ (handlers[u].pc = "sent" /\ Fail(u)) =>
                  lastResponse' = lastResponse
           /\ (handlers[u].pc = "acked" /\ Forward(u)) =>
                  /\ handlers'[u].conversationId = lastResponse.conversationId
                  /\ handlers'[u].parentMessageId = lastResponse.messageId
    /\ lastResponse' # lastResponse =>
           \/ \E u \in 1..MaxUpdates : handlers[u].pc = "sent" /\ Respond(u)
           \/ \E chat \in Chats : Update(chat, <<"/reload">>)

-----------------------------------------------------------------------------
(* checkForChatGPTAtCapacity(page, opts): a step runs the function from one *)
(* await to the next.  The callers pass timeoutMs only, so retries has its  *)
(* default.  Of the page only whether it shows the at-capacity text is      *)
(* followed; checks, reloads and observed record what the call has done.    *)

retries == 10

\* The function is left: it throws the ChatGPTError with statusCode 503 if
\* isAtCapacity, and returns otherwise
leave(c) ==
    [c EXCEPT !.pc = "done",
              !.outcome = IF c.isAtCapacity THEN "ChatGPT is at capacity, 503"
                          ELSE "returned"]

\* After page.$x (a variant that reloads however often it has tried)
checkedWithoutLimit(c, found) ==
    LET c1 == [c EXCEPT !.isAtCapacity = found, !.checks = @ + 1,
                        !.observed = IF found THEN "capacity" ELSE "clear"]
    IN  IF ~ found THEN leave(c1)
        ELSE [c1 EXCEPT !.numTries = @ + 1, !.pc = "reloading", !.reloads = @ + 1]

\* After page.$x: isAtCapacity is assigned; at capacity the loop breaks when
\* ++numTries >= retries and calls page.reload otherwise; not at capacity
\* the loop ends
checked(c, found) ==
    LET c1 == [c EXCEPT !.isAtCapacity = found, !.checks = @ + 1,
                        !.observed = IF found THEN "capacity" ELSE "clear"]
    IN  IF ~ found THEN leave(c1)
        ELSE IF c1.numTries + 1 >= retries
        THEN leave([c1 EXCEPT !.numTries = @ + 1])
        ELSE [c1 EXCEPT !.numTries = @ + 1, !.pc = "reloading", !.reloads = @ + 1]

\* The function is called and awaits solveSimpleCaptchas
InitCapacity ==
    /\ capacity \in { [NoCheck EXCEPT !.pc = "solving", !.page = shown] :
                        shown \in BOOLEAN }
    /\ DecoderIdle
    /\ RequestIdle
    /\ SessionIdle
    /\ BotIdle
    /\ BrowserIdle

\* solveSimpleCaptchas resolves: page.$x is called
Solved ==
    /\ capacity.pc = "solving"
    /\ capacity' = [capacity EXCEPT !.pc = "checking"]
    /\ UNCHANGED <<decoderVars, requestVars, sessionVars, botVars, browserVars>>

\* page.$x resolves with the elements that hold the at-capacity text
Checked ==
    /\ capacity.pc = "checking"
    /\ capacity' = checked(capacity, capacity.page)
    /\ UNCHANGED <<decoderVars, requestVars, sessionVars, botVars, browserVars>>

\* page.reload resolves: delay(pollingIntervalMs) is awaited
Reloaded(shown) ==
    /\ capacity.pc = "reloading"
    /\ capacity' = [capacity EXCEPT !.pc = "delaying", !.page = shown]
    /\ UNCHANGED <<decoderVars, requestVars, sessionVars, botVars, browserVars>>

\* The delay is over: while (isAtCapacity) starts the next pass
Delayed ==
    /\ capacity.pc = "delaying"
    /\ capacity' = IF capacity.isAtCapacity
                   THEN [capacity EXCEPT !.pc = "solving"]
                   ELSE leave(capacity)
    /\ UNCHANGED <<decoderVars, requestVars, sessionVars, botVars, browserVars>>

\* solveSimpleCaptchas, page.$x or page.reload throws: the catch block
\* counts a try and breaks
PageThrows ==
    /\ capacity.pc \in {"solving", "checking", "reloading"}
    /\ capacity' = leave([capacity EXCEPT !.numTries = @ + 1])
    /\ UNCHANGED <<decoderVars, requestVars, sessionVars, botVars, browserVars>>

\* The page comes to show the at-capacity text, or ceases to
PageTurns ==
    /\ capacity.pc # "done"
    /\ capacity' = [capacity EXCEPT !.page = ~ @]
    /\ UNCHANGED <<decoderVars, requestVars, sessionVars, botVars, browserVars>>

NextCapacity ==
    \/ Solved
    \/ Checked
    \/ \E shown \in BOOLEAN : Reloaded(shown)
    \/ Delayed
    \/ PageThrows
    \/ PageTurns

SpecCapacity == InitCapacity /\ [][NextCapacity]_vars

\* C32: checkForChatGPTAtCapacity makes at most retries capacity checks and
\* at most retries - 1 page reloads, and when it is left it has thrown the
\* ChatGPTError 'ChatGPT is at capacity' with statusCode 503 exactly when
\* the most recent completed check observed the at-capacity page.
C32_CapacityCheckIsBounded ==
    /\ capacity.checks <= retries
    /\ capacity.reloads <= retries - 1
    /\ capacity.reloads <= capacity.checks
    /\ capacity.pc = "done" =>
           (capacity.outcome = "ChatGPT is at capacity, 503"
                <=> capacity.observed = "capacity")
    /\ (capacity.pc = "done" /\ capacity.observed # "capacity") =>
           capacity.outcome = "returned"

\* The call gave up after the last check allowed, and threw
C32_Witness ==
    /\ capacity.pc = "done"
    /\ capacity.checks = retries
    /\ capacity.reloads = retries - 1
    /\ capacity.outcome = "ChatGPT is at capacity, 503"

-----------------------------------------------------------------------------
(* The decoder fed a text line by line (specification SpecFields): each     *)
(* feed() call brings one line with its "\n".  The lines have their value   *)
(* after no, one and two spaces, a second ':', no ':', a leading ':', and   *)
(* fields the decoder does not know.                                        *)

MaxFieldLines == 3   \* lines of a text

FieldLines ==
    { <<"d", "a", "t", "a", ":", "a">>,
      <<"d", "a", "t", "a", ":", " ", "a">>,
      <<"d", "a", "t", "a", ":", " ", " ", "a">>,
      <<"d", "a", "t", "a">>,
      <<"d", "a", "t", "a", ":">>,
      <<"i", "d", ":", "1", ":", "2">>,
      <<"e", "v", "e", "n", "t", ":", " ", "e">>,
      <<":", "c">>,
      <<"x", ":", "1">>,
      <<>> }

InitFields ==
    /\ input \in TextsOver(FieldLines, { <<LF>> }, MaxFieldLines)
    /\ unfed = input
    /\ isFirstChunk = NewParser.isFirstChunk
    /\ buffer = NewParser.buffer
    /\ startingPosition = NewParser.startingPosition
    /\ startingFieldLength = NewParser.startingFieldLength
    /\ eventId = NewParser.eventId
    /\ eventName = NewParser.eventName
    /\ data = NewParser.data
    /\ emitted = NewParser.emitted
    /\ fresh = NoReset
    /\ RequestIdle
    /\ SessionIdle
    /\ BotIdle
    /\ BrowserIdle
    /\ CapacityIdle

\* parser.feed(str) with the next line of the body and its terminator
FeedLine ==
    /\ unfed # <<>>
    /\ FeedChunk(TerminatorAt(unfed, 1))

SpecFields == InitFields /\ [][FeedLine]_vars

\* The line about to be fed, without its terminator
NextLine == SubSeq(unfed, 1, TerminatorAt(unfed, 1) - 1)

\* The field name of a line: the text before its first ':', the whole line
\* if it has none
FieldName(line) ==
    IF ColonAt(line, 0) < 0 THEN line ELSE SubSeq(line, 1, ColonAt(line, 0))

\* The value of a line: the text after its first ':' less one leading
\* space, empty if the line has no ':'
FieldValue(line) ==
    IF ColonAt(line, 0) < 0 THEN <<>>
    ELSE LET rest == SubSeq(line, ColonAt(line, 0) + 2, Len(line))
         IN  IF rest # <<>> /\ rest[1] = " " THEN Tail(rest) ELSE rest

\* The values joined by "\n"
RECURSIVE Joined(_)
Joined(values) ==
    IF values = <<>> THEN <<>>
    ELSE IF Len(values) = 1 THEN values[1]
    ELSE values[1] \o <<LF>> \o Joined(Tail(values))

\* The data of the events of a text: for each empty line that follows data
\* lines, the values of the data lines since the empty line before, joined.
\* pending holds the values of the data lines of the record in progress.
RECURSIVE DataOfEvents(_, _, _)
DataOfEvents(text, i, pending) ==
    LET j == TerminatorAt(text, i)
    IN  IF j = 0 THEN <<>>
        ELSE LET line == SubSeq(text, i, j - 1)
             IN  IF line = <<>>
                 THEN (IF pending = <<>> THEN <<>> ELSE <<Joined(pending)>>)
                          \o DataOfEvents(text, j + 1, <<>>)
                 ELSE IF FieldName(line) = <<"d", "a", "t", "a">>
                 THEN DataOfEvents(text, j + 1, Append(pending, FieldValue(line)))
                 ELSE DataOfEvents(text, j + 1, pending)

\* C34: for each non-empty line the text before the first ':' is the field
\* name and the text after it, less one leading space, the value (a line
\* without ':' is a field name with an empty value): a data line appends
\* its value and "\n" to the data, an event line sets the event name, an id
\* line sets the event id, and a line of any other field, a comment line
\* included, emits nothing and changes no accumulator; the data of the
\* events dispatched are the values of each record's data lines joined by
\* "\n".
C34_FieldsAndValues ==
    [][(unfed # <<>> /\ FeedLine) =>
          LET line == NextLine
              field == FieldName(line)
              value == FieldValue(line)
          IN  /\ (line # <<>> /\ field = <<"d", "a", "t", "a">>) =>
                     /\ data' = data \o value \o <<LF>>
                     /\ UNCHANGED <<eventId, eventName, emitted>>
              /\ (line # <<>> /\ field = <<"e", "v", "e", "n", "t">>) =>
                     /\ eventName' = value
                     /\ UNCHANGED <<data, eventId, emitted>>
              /\ (line # <<>> /\ field = <<"i", "d">>) =>
                     /\ eventId' = value
                     /\ UNCHANGED <<data, eventName, emitted>>
              /\ (line # <<>> /\ field \notin { <<"d", "a", "t", "a">>,
                                                <<"e", "v", "e", "n", "t">>,
                                                <<"i", "d">>,
                                                <<"r", "e", "t", "r", "y">> }) =>
                     UNCHANGED <<data, eventId, eventName, emitted>>
              /\ unfed' = <<>> =>
                     /\ Len(emitted') = Len(DataOfEvents(input, 1, <<>>))
                     /\ \A k \in 1..Len(emitted') :
                            emitted'[k].data = DataOfEvents(input, 1, <<>>)[k]]_vars

\* An event whose data joins a value that followed one space and a value
\* that followed two
C34_Witness ==
    /\ input = <<"d", "a", "t", "a", ":", " ", "a", LF,
                 "d", "a", "t", "a", ":", " ", " ", "a", LF, LF>>
    /\ unfed = <<>>
    /\ Len(emitted) = 1
    /\ emitted[1].data = <<"a", LF, " ", "a">>

-----------------------------------------------------------------------------
(* The decoder fed records that empty lines cut into parts (specification   *)
(* SpecBlank): texts of event, id, data and empty lines, one line to each   *)
(* feed() call.                                                             *)

MaxBlankLines == 5   \* lines of a text

BlankLines ==
    { <<"e", "v", "e", "n", "t", ":", " ", "e">>,
      <<"i", "d", ":", "1", ":", "2">>,
      <<"d", "a", "t", "a", ":", "a">>,
      <<>> }

InitBlank ==
    /\ input \in TextsOver(BlankLines, { <<LF>> }, MaxBlankLines)
    /\ unfed = input
    /\ isFirstChunk = NewParser.isFirstChunk
    /\ buffer = NewParser.buffer
    /\ startingPosition = NewParser.startingPosition
    /\ startingFieldLength = NewParser.startingFieldLength
    /\ eventId = NewParser.eventId
    /\ eventName = NewParser.eventName
    /\ data = NewParser.data
    /\ emitted = NewParser.emitted
    /\ fresh = NoReset
    /\ RequestIdle
    /\ SessionIdle
    /\ BotIdle
    /\ BrowserIdle
    /\ CapacityIdle

SpecBlank == InitBlank /\ [][FeedLine]_vars

\* The id and the event name of the events of a text, read off its lines:
\* an empty line ends the part an event line names, and only an empty line
\* that follows data lines ends what an id line sets.
RECURSIVE IdsAndNames(_, _, _, _, _)
IdsAndNames(text, i, id, name, hasData) ==
    LET j == TerminatorAt(text, i)
    IN  IF j = 0 THEN <<>>
        ELSE LET line == SubSeq(text, i, j - 1)
             IN  IF line = <<>>
                 THEN IF hasData
                      THEN <<[id |-> id, event |-> name]>>
                               \o IdsAndNames(text, j + 1, Undefined, Undefined, FALSE)
                      ELSE IdsAndNames(text, j + 1, id, Undefined, FALSE)
                 ELSE IF FieldName(line) = <<"d", "a", "t", "a">>
                 THEN IdsAndNames(text, j + 1, id, name, TRUE)
                 ELSE IF FieldName(line) = <<"i", "d">>
                 THEN IdsAndNames(text, j + 1, FieldValue(line), name, hasData)
                 ELSE IF FieldName(line) = <<"e", "v", "e", "n", "t">>
                 THEN IdsAndNames(text, j + 1, id, FieldValue(line), hasData)
                 ELSE IdsAndNames(text, j + 1, id, name, hasData)

\* C35: an empty line fed while no data is accumulated emits nothing, keeps
\* the event id and clears the event name; so each event of a text carries
\* the id set since the dispatch before it, across empty lines, and the
\* event name set since the empty line before its data lines only.
C35_BlankLineWithoutData ==
    [][(unfed # <<>> /\ FeedLine) =>
          /\ (NextLine = <<>> /\ data = <<>>) =>
                 /\ emitted' = emitted
                 /\ eventId' = eventId
                 /\ data' = <<>>
                 /\ eventName' = Undefined
          /\ unfed' = <<>> =>
                 /\ Len(emitted') = Len(IdsAndNames(input, 1, Undefined, Undefined, FALSE))
                 /\ \A k \in 1..Len(emitted') :
                        /\ emitted'[k].id =
                               IdsAndNames(input, 1, Undefined, Undefined, FALSE)[k].id
                        /\ emitted'[k].event =
                               IdsAndNames(input, 1, Undefined, Undefined, FALSE)[k].event]_vars

\* An event line and an id line, an empty line, a data line and the empty
\* line that dispatches: the event has the id and no event name
C35_Witness ==
    /\ input = <<"e", "v", "e", "n", "t", ":", " ", "e", LF,
                 "i", "d", ":", "1", ":", "2", LF,
                 LF,
                 "d", "a", "t", "a", ":", "a", LF,
                 LF>>
    /\ unfed = <<>>
    /\ emitted = <<[type |-> "event", id |-> <<"1", ":", "2">>,
                    event |-> Undefined, data |-> <<"a">>]>>

====
